---- MODULE Spec2Model ----
(***************************************************************************)
(* A model of the transaction-script validation engine: the script        *)
(* interpreter (utils/script_utils.rs, script/interface_ops.rs) and the   *)
(* transaction validator tx_is_valid (utils/script_utils.rs).             *)
(*                                                                         *)
(* Strings are sequences of character codes (naturals), so that lengths,  *)
(* equality and concatenation are those of the program.  Digests and      *)
(* signatures are ideal: a digest is an injective function of its input,  *)
(* a signature verifies exactly for the key and message it was made with. *)
(***************************************************************************)
EXTENDS Integers, Sequences, FiniteSets, TLC

(* ------------------------------ bounds -------------------------------- *)

\* Longest script enumerated exhaustively over ScriptAlphabet.
MaxScriptLen == 3
\* Number of key pairs.
NumKeys == 2
\* Largest machine-word value of the model (stands for usize::MAX).
WordMax == 7
\* Longest list of inputs, and of outputs, of a transaction handed to
\* tx_is_valid as a whole.
MaxCallLen == 1
\* Deepest stack handed to OP_PICK and OP_ROLL.
MaxDepth == 4
\* Largest number of signatures, and of public keys, in a multisig script.
MaxMultisig == 2
\* How far the length of a slice or a string may be from the right one.
TxHashSlack == 1
\* Longest stack handed to an opcode to see it fail for want of entries.
MaxShort == 3
\* Longest sequence of metadata updates applied to a genesis transaction.
MaxUpdates == 2

(* ------------------------- program constants -------------------------- *)

MAX_SCRIPT_SIZE == 10000
MAX_OPS_PER_SCRIPT == 201
MAX_STACK_SIZE == 1000
MAX_SCRIPT_ITEM_SIZE == 520
MAX_SCRIPT_ELEMENT_SIZE == 520
ED25519_SIGNATURE_LEN == 64
ED25519_PUBLIC_KEY_LEN == 32
\* usize::BITS as usize / EIGHT: the encoded size of a Num entry.
NUM_ENCODED_LEN == 8
\* The character that marks a script-hash address.
P2SH_PREPEND == 72

(* ------------------------------ values -------------------------------- *)

\* A string of n copies of the character c.
Str(c, n) == [i \in 1..n |-> c]

Keys == 1..NumKeys

\* StackEntry, the tagged variant of script/mod.rs.
Op(code) == [t |-> "Op", v |-> code]
Num(n) == [t |-> "Num", v |-> n]
Bytes(s) == [t |-> "Bytes", v |-> s]
PubKey(k) == [t |-> "PubKey", v |-> k]
PubKeyHash(s) == [t |-> "PubKeyHash", v |-> s]
Signature(g) == [t |-> "Signature", v |-> g]

\* Option<T>. Defined after StackEntry: TLC orders the fields of a record
\* by first occurrence, and the tag t of an entry must come before v.
None == [some |-> FALSE]
Some(x) == [some |-> TRUE, v |-> x]

(* --------------------- cryptographic primitives ----------------------- *)

\* sign::sign_detached(msg, sk): the signature of msg under key pair k.
sign_detached(msg, k) == [signer |-> k, msg |-> msg]

\* A 64-byte value that no key produced.
JunkSignature == [signer |-> 0, msg |-> <<>>]

\* sign::verify_detached(sig, msg, pk).
verify_detached(sig, msg, pk) == sig.signer = pk /\ sig.msg = msg

\* The address hash schemes: current (None), V0, TEMP.
AddressVersions == {"None", "V0", "TEMP"}

\* construct_address_for(pub_key, address_version): a hex digest of the key,
\* 64 characters in the current and TEMP schemes, 32 in V0.
construct_address_for(k, version) ==
    CASE version = "None" -> Str(10 * k + 1, 64)
      [] version = "V0"   -> Str(10 * k + 2, 32)
      [] version = "TEMP" -> Str(10 * k + 3, 64)

construct_address(k) == construct_address_for(k, "None")

(* ------------------------------ stacks -------------------------------- *)

Top(s) == s[Len(s)]
Pop(s) == SubSeq(s, 1, Len(s) - 1)
Push(s, x) == Append(s, x)
\* The entry k places below the top (0 is the top).
Peek(s, k) == s[Len(s) - k]
DropN(s, k) == SubSeq(s, 1, Len(s) - k)

\* What an opcode function leaves behind: its boolean, the stack as mutated,
\* and whether it panicked instead of returning.
Ret(b, s) == [ok |-> b, panic |-> FALSE, stack |-> s]
Panic(s) == [ok |-> FALSE, panic |-> TRUE, stack |-> s]

(* ---------------------- opcodes: interface_ops.rs --------------------- *)

\* OP_0 .. OP_16: push the constant.
\* A mutant of the constant opcodes that pushes the opcode entry itself.
op_n_entry(s, n) ==
    Ret(TRUE, Push(s, Op(IF n = 0 THEN "OP_0" ELSE "OP_N")))

op_n(s, n) == Ret(TRUE, Push(s, Num(n)))

op_nop(s) == Ret(TRUE, s)

\* OP_VERIFY: pops the top entry and fails if it is zero.
op_verify(s) ==
    IF Len(s) = 0 THEN Ret(FALSE, s)
    ELSE IF Top(s) = Num(0) THEN Ret(FALSE, Pop(s))
    ELSE Ret(TRUE, Pop(s))

\* A mutant of op_toaltstack that copies the top entry instead of moving it.
op_toaltstack_copy(s, alt) ==
    IF Len(s) = 0 THEN [ok |-> FALSE, panic |-> FALSE, stack |-> s, alt |-> alt]
    ELSE [ok |-> TRUE, panic |-> FALSE, stack |-> s, alt |-> Push(alt, Top(s))]

op_toaltstack(s, alt) ==
    IF Len(s) = 0 THEN [ok |-> FALSE, panic |-> FALSE, stack |-> s, alt |-> alt]
    ELSE [ok |-> TRUE, panic |-> FALSE, stack |-> Pop(s), alt |-> Push(alt, Top(s))]

op_fromaltstack(s, alt) ==
    IF Len(alt) = 0 THEN [ok |-> FALSE, panic |-> FALSE, stack |-> s, alt |-> alt]
    ELSE [ok |-> TRUE, panic |-> FALSE, stack |-> Push(s, Top(alt)), alt |-> Pop(alt)]

op_2drop(s) ==
    IF Len(s) < 2 THEN Ret(FALSE, s) ELSE Ret(TRUE, DropN(s, 2))

op_2dup(s) ==
    IF Len(s) < 2 THEN Ret(FALSE, s)
    ELSE Ret(TRUE, s \o <<Peek(s, 1), Peek(s, 0)>>)

op_3dup(s) ==
    IF Len(s) < 3 THEN Ret(FALSE, s)
    ELSE Ret(TRUE, s \o <<Peek(s, 2), Peek(s, 1), Peek(s, 0)>>)

op_2over(s) ==
    IF Len(s) < 4 THEN Ret(FALSE, s)
    ELSE Ret(TRUE, s \o <<Peek(s, 3), Peek(s, 2)>>)

op_2rot(s) ==
    IF Len(s) < 6 THEN Ret(FALSE, s)
    ELSE Ret(TRUE, DropN(s, 6) \o SubSeq(s, Len(s) - 3, Len(s))
                   \o <<Peek(s, 5), Peek(s, 4)>>)

op_2swap(s) ==
    IF Len(s) < 4 THEN Ret(FALSE, s)
    ELSE Ret(TRUE, DropN(s, 4) \o <<Peek(s, 1), Peek(s, 0), Peek(s, 3), Peek(s, 2)>>)

op_ifdup(s) ==
    IF Len(s) = 0 THEN Ret(FALSE, s)
    ELSE IF Top(s) # Num(0) THEN Ret(TRUE, Push(s, Top(s)))
    ELSE Ret(TRUE, s)

op_depth(s) == Ret(TRUE, Push(s, Num(Len(s))))

op_drop(s) ==
    IF Len(s) = 0 THEN Ret(FALSE, s) ELSE Ret(TRUE, Pop(s))

op_dup(s) ==
    IF Len(s) = 0 THEN Ret(FALSE, s) ELSE Ret(TRUE, Push(s, Top(s)))

op_nip(s) ==
    IF Len(s) < 2 THEN Ret(FALSE, s)
    ELSE Ret(TRUE, Push(DropN(s, 2), Top(s)))

op_over(s) ==
    IF Len(s) < 2 THEN Ret(FALSE, s)
    ELSE Ret(TRUE, Push(s, Peek(s, 1)))

op_rot(s) ==
    IF Len(s) < 3 THEN Ret(FALSE, s)
    ELSE Ret(TRUE, DropN(s, 3) \o <<Peek(s, 1), Peek(s, 0), Peek(s, 2)>>)

op_swap(s) ==
    IF Len(s) < 2 THEN Ret(FALSE, s)
    ELSE Ret(TRUE, DropN(s, 2) \o <<Peek(s, 0), Peek(s, 1)>>)

op_tuck(s) ==
    IF Len(s) < 2 THEN Ret(FALSE, s)
    ELSE Ret(TRUE, DropN(s, 2) \o <<Peek(s, 0), Peek(s, 1), Peek(s, 0)>>)

op_size(s) ==
    IF Len(s) = 0 THEN Ret(FALSE, s)
    ELSE IF Top(s).t # "Bytes" THEN Ret(FALSE, s)
    ELSE Ret(TRUE, Push(s, Num(Len(Top(s).v))))

op_equal(s) ==
    IF Len(s) < 2 THEN Ret(FALSE, s)
    ELSE IF Peek(s, 1) = Peek(s, 0) THEN Ret(TRUE, Push(DropN(s, 2), Num(1)))
    ELSE Ret(TRUE, Push(DropN(s, 2), Num(0)))

op_equalverify(s) ==
    IF Len(s) < 2 THEN Ret(FALSE, s)
    ELSE IF Peek(s, 1) # Peek(s, 0) THEN Ret(FALSE, DropN(s, 2))
    ELSE Ret(TRUE, DropN(s, 2))

\* usize::checked_add / checked_sub: None outside 0 .. usize::MAX.
checked_add(a, b) ==
    IF a + b > WordMax THEN [some |-> FALSE, v |-> 0] ELSE [some |-> TRUE, v |-> a + b]
checked_sub(a, b) ==
    IF a - b < 0 THEN [some |-> FALSE, v |-> 0] ELSE [some |-> TRUE, v |-> a - b]

op_1add(s) ==
    IF Len(s) = 0 THEN Ret(FALSE, s)
    ELSE IF Top(s).t # "Num" THEN Ret(FALSE, Pop(s))
    ELSE LET r == checked_add(Top(s).v, 1)
         IN  IF ~r.some THEN Ret(FALSE, Pop(s)) ELSE Ret(TRUE, Push(Pop(s), Num(r.v)))

op_1sub(s) ==
    IF Len(s) = 0 THEN Ret(FALSE, s)
    ELSE IF Top(s).t # "Num" THEN Ret(FALSE, Pop(s))
    ELSE LET r == checked_sub(Top(s).v, 1)
         IN  IF ~r.some THEN Ret(FALSE, Pop(s)) ELSE Ret(TRUE, Push(Pop(s), Num(r.v)))

op_not(s) ==
    IF Len(s) = 0 THEN Ret(FALSE, s)
    ELSE IF Top(s).t # "Num" THEN Ret(FALSE, Pop(s))
    ELSE IF Top(s).v = 0 THEN Ret(TRUE, Push(Pop(s), Num(1)))
    ELSE Ret(TRUE, Push(Pop(s), Num(0)))

op_0notequal(s) ==
    IF Len(s) = 0 THEN Ret(FALSE, s)
    ELSE IF Top(s).t # "Num" THEN Ret(FALSE, Pop(s))
    ELSE IF Top(s).v # 0 THEN Ret(TRUE, Push(Pop(s), Num(1)))
    ELSE Ret(TRUE, Push(Pop(s), Num(0)))

op_add(s) ==
    IF Len(s) < 2 THEN Ret(FALSE, s)
    ELSE IF Peek(s, 0).t # "Num" THEN Ret(FALSE, Pop(s))
    ELSE IF Peek(s, 1).t # "Num" THEN Ret(FALSE, DropN(s, 2))
    ELSE LET r == checked_add(Peek(s, 1).v, Peek(s, 0).v)
         IN  IF ~r.some THEN Ret(FALSE, DropN(s, 2))
             ELSE Ret(TRUE, Push(DropN(s, 2), Num(r.v)))

op_sub(s) ==
    IF Len(s) < 2 THEN Ret(FALSE, s)
    ELSE IF Peek(s, 0).t # "Num" THEN Ret(FALSE, Pop(s))
    ELSE IF Peek(s, 1).t # "Num" THEN Ret(FALSE, DropN(s, 2))
    ELSE LET r == checked_sub(Peek(s, 1).v, Peek(s, 0).v)
         IN  IF ~r.some THEN Ret(FALSE, DropN(s, 2))
             ELSE Ret(TRUE, Push(DropN(s, 2), Num(r.v)))

\* usize::wrapping_mul, which the code does not use.
wrapping_mul(a, b) == [some |-> TRUE, v |-> (a * b) % (WordMax + 1)]

\* usize::checked_mul, checked_div and checked_rem_euclid.
checked_mul(a, b) ==
    IF a * b > WordMax THEN [some |-> FALSE, v |-> 0] ELSE [some |-> TRUE, v |-> a * b]
checked_div(a, b) ==
    IF b = 0 THEN [some |-> FALSE, v |-> 0] ELSE [some |-> TRUE, v |-> a \div b]
checked_rem_euclid(a, b) ==
    IF b = 0 THEN [some |-> FALSE, v |-> 0] ELSE [some |-> TRUE, v |-> a % b]

\* usize::BITS: the number of bits of a word that holds 0 .. WordMax.
WordBits == CHOOSE k \in 1..WordMax : 2^(k - 1) <= WordMax /\ WordMax < 2^k
\* u32::MAX: the largest value of the narrower type of a shift amount.
ShiftMax == WordMax \div 2
\* n as u32: the low bits of n.
as_u32(n) == n % (ShiftMax + 1)

\* usize::checked_shl and checked_shr: None when the amount is not less than
\* the number of bits; bits shifted out of the word are lost.
checked_shl(a, n) ==
    IF n >= WordBits THEN [some |-> FALSE, v |-> 0]
    ELSE [some |-> TRUE, v |-> (a * 2^n) % (WordMax + 1)]
checked_shr(a, n) ==
    IF n >= WordBits THEN [some |-> FALSE, v |-> 0]
    ELSE [some |-> TRUE, v |-> a \div 2^n]

\* An opcode that pops a number and pushes f of it.
UnaryNumOp(s, r) ==
    IF ~r.some THEN Ret(FALSE, Pop(s)) ELSE Ret(TRUE, Push(Pop(s), Num(r.v)))

op_2mul(s) ==
    IF Len(s) = 0 THEN Ret(FALSE, s)
    ELSE IF Top(s).t # "Num" THEN Ret(FALSE, Pop(s))
    ELSE UnaryNumOp(s, checked_mul(Top(s).v, 2))

\* An opcode that pops n2, then n1, and pushes the number r made of them.
BinaryNumOp(s, r) ==
    IF ~r.some THEN Ret(FALSE, DropN(s, 2))
    ELSE Ret(TRUE, Push(DropN(s, 2), Num(r.v)))

op_mul(s) ==
    IF Len(s) < 2 THEN Ret(FALSE, s)
    ELSE IF Peek(s, 0).t # "Num" THEN Ret(FALSE, Pop(s))
    ELSE IF Peek(s, 1).t # "Num" THEN Ret(FALSE, DropN(s, 2))
    ELSE BinaryNumOp(s, checked_mul(Peek(s, 1).v, Peek(s, 0).v))

op_div(s) ==
    IF Len(s) < 2 THEN Ret(FALSE, s)
    ELSE IF Peek(s, 0).t # "Num" THEN Ret(FALSE, Pop(s))
    ELSE IF Peek(s, 1).t # "Num" THEN Ret(FALSE, DropN(s, 2))
    ELSE BinaryNumOp(s, checked_div(Peek(s, 1).v, Peek(s, 0).v))

op_mod(s) ==
    IF Len(s) < 2 THEN Ret(FALSE, s)
    ELSE IF Peek(s, 0).t # "Num" THEN Ret(FALSE, Pop(s))
    ELSE IF Peek(s, 1).t # "Num" THEN Ret(FALSE, DropN(s, 2))
    ELSE BinaryNumOp(s, checked_rem_euclid(Peek(s, 1).v, Peek(s, 0).v))

\* OP_LSHIFT and OP_RSHIFT: the amount is converted with `as u32`.
op_lshift(s) ==
    IF Len(s) < 2 THEN Ret(FALSE, s)
    ELSE IF Peek(s, 0).t # "Num" THEN Ret(FALSE, Pop(s))
    ELSE IF Peek(s, 1).t # "Num" THEN Ret(FALSE, DropN(s, 2))
    ELSE BinaryNumOp(s, checked_shl(Peek(s, 1).v, as_u32(Peek(s, 0).v)))

op_rshift(s) ==
    IF Len(s) < 2 THEN Ret(FALSE, s)
    ELSE IF Peek(s, 0).t # "Num" THEN Ret(FALSE, Pop(s))
    ELSE IF Peek(s, 1).t # "Num" THEN Ret(FALSE, DropN(s, 2))
    ELSE BinaryNumOp(s, checked_shr(Peek(s, 1).v, as_u32(Peek(s, 0).v)))

\* OP_PICK: pops n and copies the entry n places below the new top.
op_pick(s) ==
    IF Len(s) < 2 THEN Ret(FALSE, s)
    ELSE IF Top(s).t # "Num" THEN Ret(FALSE, Pop(s))
    ELSE LET n == Top(s).v
             rest == Pop(s)
         IN  IF n >= Len(rest) THEN Ret(FALSE, rest)
             ELSE Ret(TRUE, Push(rest, rest[Len(rest) - n]))

\* An OP_ROLL that leaves the entry where it was.
op_roll_noremove(s) ==
    IF Len(s) < 2 THEN Ret(FALSE, s)
    ELSE IF Top(s).t # "Num" THEN Ret(FALSE, Pop(s))
    ELSE LET n == Top(s).v
             rest == Pop(s)
         IN  IF n >= Len(rest) THEN Ret(FALSE, rest)
             ELSE Ret(TRUE, Push(rest, rest[Len(rest) - n]))

\* OP_ROLL: pops n and moves the entry n places below the new top.
op_roll(s) ==
    IF Len(s) < 2 THEN Ret(FALSE, s)
    ELSE IF Top(s).t # "Num" THEN Ret(FALSE, Pop(s))
    ELSE LET n == Top(s).v
             rest == Pop(s)
             index == Len(rest) - n
         IN  IF n >= Len(rest) THEN Ret(FALSE, rest)
             ELSE Ret(TRUE, Push(SubSeq(rest, 1, index - 1)
                                    \o SubSeq(rest, index + 1, Len(rest)),
                                 rest[index]))

\* An OP_CAT that also rejects a result of exactly the limit.
op_cat_strict(s) ==
    IF Len(s) < 2 THEN Ret(FALSE, s)
    ELSE IF Peek(s, 0).t # "Bytes" THEN Ret(FALSE, Pop(s))
    ELSE IF Peek(s, 1).t # "Bytes" THEN Ret(FALSE, DropN(s, 2))
    ELSE LET s1 == Peek(s, 1).v
             s2 == Peek(s, 0).v
         IN  IF Len(s1) + Len(s2) >= MAX_SCRIPT_ELEMENT_SIZE
             THEN Ret(FALSE, DropN(s, 2))
             ELSE Ret(TRUE, Push(DropN(s, 2), Bytes(s1 \o s2)))

\* OP_CAT: pops s2, then s1, and pushes s1 followed by s2.
op_cat(s) ==
    IF Len(s) < 2 THEN Ret(FALSE, s)
    ELSE IF Peek(s, 0).t # "Bytes" THEN Ret(FALSE, Pop(s))
    ELSE IF Peek(s, 1).t # "Bytes" THEN Ret(FALSE, DropN(s, 2))
    ELSE LET s1 == Peek(s, 1).v
             s2 == Peek(s, 0).v
         IN  IF Len(s1) + Len(s2) > MAX_SCRIPT_ELEMENT_SIZE
             THEN Ret(FALSE, DropN(s, 2))
             ELSE Ret(TRUE, Push(DropN(s, 2), Bytes(s1 \o s2)))

\* str::is_char_boundary(index) for a UTF-8 string: the start, the end, or
\* a byte that is not a continuation byte (0x80 .. 0xBF).
is_char_boundary(str, index) ==
    \/ index = 0
    \/ index = Len(str)
    \/ index < Len(str) /\ ~(str[index + 1] >= 128 /\ str[index + 1] <= 191)

\* OP_SUBSTR: pops n2, n1 and s. The sum n1 + n2 is a usize addition: beyond
\* usize::MAX it panics in a build with overflow checks and wraps in a build
\* without them. s.get(n1..n1 + n2) is None unless both ends are character
\* boundaries, and the unwrap panics then.
op_substr(s, overflow_checks) ==
    IF Len(s) < 3 THEN Ret(FALSE, s)
    ELSE IF Peek(s, 0).t # "Num" THEN Ret(FALSE, Pop(s))
    ELSE IF Peek(s, 1).t # "Num" THEN Ret(FALSE, DropN(s, 2))
    ELSE IF Peek(s, 2).t # "Bytes" THEN Ret(FALSE, DropN(s, 3))
    ELSE LET n2 == Peek(s, 0).v
             n1 == Peek(s, 1).v
             str == Peek(s, 2).v
             rest == DropN(s, 3)
             sum == (n1 + n2) % (WordMax + 1)
         IN  IF n1 >= Len(str) THEN Ret(FALSE, rest)
             ELSE IF n2 > Len(str) THEN Ret(FALSE, rest)
             ELSE IF n1 + n2 > WordMax /\ overflow_checks THEN Panic(rest)
             ELSE IF sum > Len(str) THEN Ret(FALSE, rest)
             ELSE IF sum < n1 THEN Panic(rest)
             ELSE IF ~(is_char_boundary(str, n1) /\ is_char_boundary(str, sum))
                  THEN Panic(rest)
             ELSE Ret(TRUE, Push(rest, Bytes(SubSeq(str, n1 + 1, sum))))

\* OP_LEFT: pops n and s and pushes s when n >= s.len(), s.get(..n) otherwise;
\* the unwrap panics when n is not a character boundary.
op_left(s) ==
    IF Len(s) < 2 THEN Ret(FALSE, s)
    ELSE IF Peek(s, 0).t # "Num" THEN Ret(FALSE, Pop(s))
    ELSE IF Peek(s, 1).t # "Bytes" THEN Ret(FALSE, DropN(s, 2))
    ELSE LET n == Peek(s, 0).v
             str == Peek(s, 1).v
             rest == DropN(s, 2)
         IN  IF n >= Len(str) THEN Ret(TRUE, Push(rest, Bytes(str)))
             ELSE IF ~is_char_boundary(str, n) THEN Panic(rest)
             ELSE Ret(TRUE, Push(rest, Bytes(SubSeq(str, 1, n))))

\* OP_RIGHT: pops n and s and pushes the empty string when n >= s.len(),
\* s.get(n..) otherwise.
op_right(s) ==
    IF Len(s) < 2 THEN Ret(FALSE, s)
    ELSE IF Peek(s, 0).t # "Num" THEN Ret(FALSE, Pop(s))
    ELSE IF Peek(s, 1).t # "Bytes" THEN Ret(FALSE, DropN(s, 2))
    ELSE LET n == Peek(s, 0).v
             str == Peek(s, 1).v
             rest == DropN(s, 2)
         IN  IF n >= Len(str) THEN Ret(TRUE, Push(rest, Bytes(<<>>)))
             ELSE IF ~is_char_boundary(str, n) THEN Panic(rest)
             ELSE Ret(TRUE, Push(rest, Bytes(SubSeq(str, n + 1, Len(str)))))

\* usize::not, bitand, bitor and bitxor on the bits of a word.
BitAt(n, i) == (n \div 2^i) % 2
BitwiseOp(a, b, F(_, _)) ==
    LET S[i \in 0..WordBits] ==
            IF i = 0 THEN 0
            ELSE S[i - 1] + 2^(i - 1) * F(BitAt(a, i - 1), BitAt(b, i - 1))
    IN  S[WordBits]
bitnot(a) == BitwiseOp(a, a, LAMBDA x, y : 1 - x)
bitand(a, b) == BitwiseOp(a, b, LAMBDA x, y : x * y)
bitor(a, b) == BitwiseOp(a, b, LAMBDA x, y : IF x + y > 0 THEN 1 ELSE 0)
bitxor(a, b) == BitwiseOp(a, b, LAMBDA x, y : (x + y) % 2)

\* The common body of the opcodes on one, two and three numbers: the length
\* check, then the pops with their variant matches, then the result F.
OneNum(s, F(_)) ==
    IF Len(s) = 0 THEN Ret(FALSE, s)
    ELSE IF Top(s).t # "Num" THEN Ret(FALSE, Pop(s))
    ELSE F(Top(s).v)
TwoNums(s, F(_, _)) ==
    IF Len(s) < 2 THEN Ret(FALSE, s)
    ELSE IF Peek(s, 0).t # "Num" THEN Ret(FALSE, Pop(s))
    ELSE IF Peek(s, 1).t # "Num" THEN Ret(FALSE, DropN(s, 2))
    ELSE F(Peek(s, 1).v, Peek(s, 0).v)
ThreeNums(s, F(_, _, _)) ==
    IF Len(s) < 3 THEN Ret(FALSE, s)
    ELSE IF Peek(s, 0).t # "Num" THEN Ret(FALSE, Pop(s))
    ELSE IF Peek(s, 1).t # "Num" THEN Ret(FALSE, DropN(s, 2))
    ELSE IF Peek(s, 2).t # "Num" THEN Ret(FALSE, DropN(s, 3))
    ELSE F(Peek(s, 2).v, Peek(s, 1).v, Peek(s, 0).v)
\* The number pushed for a boolean.
BoolNum(b) == Num(IF b THEN 1 ELSE 0)

op_invert(s) ==
    OneNum(s, LAMBDA n : Ret(TRUE, Push(Pop(s), Num(bitnot(n)))))
op_and(s) ==
    TwoNums(s, LAMBDA n1, n2 : Ret(TRUE, Push(DropN(s, 2), Num(bitand(n1, n2)))))
op_or(s) ==
    TwoNums(s, LAMBDA n1, n2 : Ret(TRUE, Push(DropN(s, 2), Num(bitor(n1, n2)))))
op_xor(s) ==
    TwoNums(s, LAMBDA n1, n2 : Ret(TRUE, Push(DropN(s, 2), Num(bitxor(n1, n2)))))
op_2div(s) ==
    OneNum(s, LAMBDA n : Ret(TRUE, Push(Pop(s), Num(n \div 2))))
op_booland(s) ==
    TwoNums(s, LAMBDA n1, n2 :
        Ret(TRUE, Push(DropN(s, 2), BoolNum(n1 # 0 /\ n2 # 0))))
op_boolor(s) ==
    TwoNums(s, LAMBDA n1, n2 :
        Ret(TRUE, Push(DropN(s, 2), BoolNum(n1 # 0 \/ n2 # 0))))
op_numequal(s) ==
    TwoNums(s, LAMBDA n1, n2 : Ret(TRUE, Push(DropN(s, 2), BoolNum(n1 = n2))))
op_numequalverify(s) ==
    TwoNums(s, LAMBDA n1, n2 : Ret(n1 = n2, DropN(s, 2)))
op_numnotequal(s) ==
    TwoNums(s, LAMBDA n1, n2 : Ret(TRUE, Push(DropN(s, 2), BoolNum(n1 # n2))))
op_lessthan(s) ==
    TwoNums(s, LAMBDA n1, n2 : Ret(TRUE, Push(DropN(s, 2), BoolNum(n1 < n2))))
op_greaterthan(s) ==
    TwoNums(s, LAMBDA n1, n2 : Ret(TRUE, Push(DropN(s, 2), BoolNum(n1 > n2))))
op_lessthanorequal(s) ==
    TwoNums(s, LAMBDA n1, n2 : Ret(TRUE, Push(DropN(s, 2), BoolNum(n1 <= n2))))
op_greaterthanorequal(s) ==
    TwoNums(s, LAMBDA n1, n2 : Ret(TRUE, Push(DropN(s, 2), BoolNum(n1 >= n2))))
op_min(s) ==
    TwoNums(s, LAMBDA n1, n2 :
        Ret(TRUE, Push(DropN(s, 2), Num(IF n1 < n2 THEN n1 ELSE n2))))
op_max(s) ==
    TwoNums(s, LAMBDA n1, n2 :
        Ret(TRUE, Push(DropN(s, 2), Num(IF n1 > n2 THEN n1 ELSE n2))))
op_within(s) ==
    ThreeNums(s, LAMBDA n1, n2, n3 :
        Ret(TRUE, Push(DropN(s, 3), BoolNum(n1 >= n2 /\ n1 < n3))))

\* A mutant of op_hash256 that always derives the current-scheme address.
op_hash256_current(s, address_version) ==
    IF Len(s) = 0 THEN Panic(s)
    ELSE IF Top(s).t # "PubKey" THEN Ret(FALSE, Pop(s))
    ELSE Ret(TRUE, Push(Pop(s), PubKeyHash(construct_address_for(Top(s).v, "None"))))

\* op_hash256(current_stack, address_version): pop().unwrap() panics on an
\* empty stack; any entry other than a PubKey is popped and rejected.
op_hash256(s, address_version) ==
    IF Len(s) = 0 THEN Panic(s)
    ELSE IF Top(s).t # "PubKey" THEN Ret(FALSE, Pop(s))
    ELSE Ret(TRUE, Push(Pop(s), PubKeyHash(construct_address_for(Top(s).v,
                                                                 address_version))))

\* A mutant of op_checksig that accepts every signature.
op_checksig_noverify(s) ==
    IF Len(s) = 0 THEN Panic(s)
    ELSE IF Peek(s, 0).t # "PubKey" THEN Panic(Pop(s))
    ELSE IF Len(s) = 1 THEN Panic(Pop(s))
    ELSE IF Peek(s, 1).t # "Signature" THEN Panic(DropN(s, 2))
    ELSE IF Len(s) = 2 THEN Panic(DropN(s, 2))
    ELSE IF Peek(s, 2).t # "Bytes" THEN Panic(DropN(s, 3))
    ELSE Ret(TRUE, DropN(s, 3))

\* op_checksig pops a PubKey, a Signature and a Bytes entry, each with
\* pop().unwrap() and a panic! on any other variant, and pushes nothing.
op_checksig(s) ==
    IF Len(s) = 0 THEN Panic(s)
    ELSE IF Peek(s, 0).t # "PubKey" THEN Panic(Pop(s))
    ELSE IF Len(s) = 1 THEN Panic(Pop(s))
    ELSE IF Peek(s, 1).t # "Signature" THEN Panic(DropN(s, 2))
    ELSE IF Len(s) = 2 THEN Panic(DropN(s, 2))
    ELSE IF Peek(s, 2).t # "Bytes" THEN Panic(DropN(s, 3))
    ELSE IF ~verify_detached(Peek(s, 1).v, Peek(s, 2).v, Peek(s, 0).v)
         THEN Ret(FALSE, DropN(s, 3))
    ELSE Ret(TRUE, DropN(s, 3))

\* The number of entries of variant tag at the top of the stack.
TrailingCount(s, tag) ==
    CHOOSE k \in 0..Len(s) :
        /\ \A i \in (Len(s) - k + 1)..Len(s) : s[i].t = tag
        /\ k = Len(s) \/ s[Len(s) - k].t # tag

\* The payloads of the k entries at the top of the stack, in the order in
\* which they are popped.
PoppedValues(s, k) == [i \in 1..k |-> s[Len(s) + 1 - i].v]

\* A mutant of match_on_multisig_to_pubkey whose scan of the public keys
\* does not stop at the first key that verifies.
match_on_multisig_to_pubkey_nobreak(check_data, signatures, pub_keys, m) ==
    Cardinality({<<i, j>> \in (DOMAIN signatures) \X (DOMAIN pub_keys) :
                    verify_detached(signatures[i], check_data, pub_keys[j])}) >= m

\* match_on_multisig_to_pubkey: for each signature the public keys are
\* scanned in order up to the first that verifies, which adds one to the
\* counter; the result is counter >= m.
match_on_multisig_to_pubkey(check_data, signatures, pub_keys, m) ==
    LET FirstMatch(i) ==
            IF \E j \in DOMAIN pub_keys :
                  verify_detached(signatures[i], check_data, pub_keys[j])
            THEN CHOOSE j \in DOMAIN pub_keys :
                    /\ verify_detached(signatures[i], check_data, pub_keys[j])
                    /\ \A l \in 1..(j - 1) :
                          ~verify_detached(signatures[i], check_data, pub_keys[l])
            ELSE 0
        counter == Cardinality({i \in DOMAIN signatures : FirstMatch(i) # 0})
    IN  counter >= m

\* op_multisig(current_stack): pops n, the public keys at the top, m, the
\* signatures at the top and the check data.  pop().unwrap(), the variant
\* matches and the indexing current_stack[len - 1] panic when the entry is
\* missing or of another variant.
op_multisig(s) ==
    IF Len(s) = 0 THEN Panic(s)
    ELSE IF Top(s).t # "Num" THEN Panic(Pop(s))
    ELSE
    LET n == Top(s).v
        s1 == Pop(s)
        kc == TrailingCount(s1, "PubKey")
        pub_keys == PoppedValues(s1, kc)
        s2 == DropN(s1, kc)
    IN
    IF kc = Len(s1) THEN Panic(s2)
    ELSE IF kc < n THEN Ret(FALSE, s2)
    ELSE IF Top(s2).t # "Num" THEN Panic(Pop(s2))
    ELSE
    LET m == Top(s2).v
        s3 == Pop(s2)
        sc == TrailingCount(s3, "Signature")
        signatures == PoppedValues(s3, sc)
        s4 == DropN(s3, sc)
    IN
    IF m > n \/ m > kc THEN Ret(FALSE, s3)
    ELSE IF sc = Len(s3) THEN Panic(s4)
    ELSE IF Top(s4).t # "Bytes" THEN Panic(Pop(s4))
    ELSE Ret(match_on_multisig_to_pubkey(Top(s4).v, signatures, pub_keys, m),
             Pop(s4))

(* ------------------- interpreter: utils/script_utils.rs --------------- *)

OpConstNames ==
    <<"OP_0", "OP_1", "OP_2", "OP_3", "OP_4", "OP_5", "OP_6", "OP_7", "OP_8",
      "OP_9", "OP_10", "OP_11", "OP_12", "OP_13", "OP_14", "OP_15", "OP_16">>

OpConsts == {OpConstNames[i] : i \in 1..17}

\* The number OP_n pushes.
OpConstValue(code) == (CHOOSE i \in 1..17 : OpConstNames[i] = code) - 1

\* The opcodes interpret_script has a match arm for.
DispatchedOps ==
    OpConsts \cup
    {"OP_NOP", "OP_VERIFY", "OP_RETURN", "OP_TOALTSTACK", "OP_FROMALTSTACK",
     "OP_2DROP", "OP_2DUP", "OP_3DUP", "OP_2OVER", "OP_2ROT", "OP_2SWAP",
     "OP_IFDUP", "OP_DEPTH", "OP_DROP", "OP_DUP", "OP_NIP", "OP_OVER",
     "OP_PICK", "OP_ROLL", "OP_ROT", "OP_SWAP", "OP_TUCK", "OP_SIZE",
     "OP_EQUAL", "OP_EQUALVERIFY", "OP_1ADD", "OP_1SUB", "OP_NOT",
     "OP_0NOTEQUAL", "OP_ADD", "OP_SUB", "OP_BOOLAND", "OP_BOOLOR",
     "OP_NUMEQUAL", "OP_NUMEQUALVERIFY", "OP_NUMNOTEQUAL", "OP_LESSTHAN",
     "OP_GREATERTHAN", "OP_LESSTHANOREQUAL", "OP_GREATERTHANOREQUAL",
     "OP_MIN", "OP_MAX", "OP_WITHIN", "OP_CREATE", "OP_SHA3", "OP_HASH256",
     "OP_HASH256V0", "OP_HASH256TEMP", "OP_CHECKSIG", "OP_CHECKSIGVERIFY",
     "OP_CHECKMULTISIG", "OP_CHECKMULTISIGVERIFY"}

\* The encoded size of one script entry.
EntryLen(e) ==
    CASE e.t = "Op" -> 1
      [] e.t = "Signature" -> ED25519_SIGNATURE_LEN
      [] e.t = "PubKey" -> ED25519_PUBLIC_KEY_LEN
      [] e.t \in {"PubKeyHash", "Bytes"} -> Len(e.v)
      [] e.t = "Num" -> NUM_ENCODED_LEN

\* The sum of the encoded sizes of entries lo..hi, by halves.
RECURSIVE LenOfRange(_, _, _)
LenOfRange(script, lo, hi) ==
    IF lo > hi THEN 0
    ELSE IF lo = hi THEN EntryLen(script[lo])
    ELSE LET mid == (lo + hi) \div 2 IN
         LenOfRange(script, lo, mid) + LenOfRange(script, mid + 1, hi)

\* len after the first n entries.
ScriptLen(script, n) == LenOfRange(script, 1, n)

OpsCount(script) == Cardinality({i \in 1..Len(script) : script[i].t = "Op"})

\* A mutant of is_valid_script that also rejects a script at a limit.
is_valid_script_strict(script) ==
    IF ScriptLen(script, Len(script)) >= MAX_SCRIPT_SIZE THEN FALSE
    ELSE IF OpsCount(script) >= MAX_OPS_PER_SCRIPT THEN FALSE
    ELSE TRUE

is_valid_script(script) ==
    IF ScriptLen(script, Len(script)) > MAX_SCRIPT_SIZE THEN FALSE
    ELSE IF OpsCount(script) > MAX_OPS_PER_SCRIPT THEN FALSE
    ELSE TRUE

is_valid_stack(stack, alt) ==
    IF Len(stack) + Len(alt) > MAX_STACK_SIZE THEN FALSE ELSE TRUE

\* A mutant of push_entry_to_stack that rejects an item at the size limit.
push_entry_to_stack_strict(e, stack) ==
    IF e.t = "Op" THEN Ret(FALSE, stack)
    ELSE IF e.t \in {"PubKeyHash", "Bytes"} /\ Len(e.v) >= MAX_SCRIPT_ITEM_SIZE
         THEN Ret(FALSE, stack)
    ELSE Ret(TRUE, Push(stack, e))

push_entry_to_stack(e, stack) ==
    IF e.t = "Op" THEN Ret(FALSE, stack)
    ELSE IF e.t \in {"PubKeyHash", "Bytes"} /\ Len(e.v) > MAX_SCRIPT_ITEM_SIZE
         THEN Ret(FALSE, stack)
    ELSE Ret(TRUE, Push(stack, e))

\* An opcode's result with the alt stack it leaves.
WithAlt(r, alt) == [ok |-> r.ok, panic |-> r.panic, stack |-> r.stack, alt |-> alt]

\* The match arm of interpret_script for a dispatched opcode.
ExecOp(code, s, alt) ==
    CASE code \in OpConsts -> WithAlt(op_n(s, OpConstValue(code)), alt)
      [] code = "OP_NOP" -> WithAlt(op_nop(s), alt)
      [] code = "OP_VERIFY" -> WithAlt(op_verify(s), alt)
      [] code = "OP_TOALTSTACK" -> op_toaltstack(s, alt)
      [] code = "OP_FROMALTSTACK" -> op_fromaltstack(s, alt)
      [] code = "OP_2DROP" -> WithAlt(op_2drop(s), alt)
      [] code = "OP_2DUP" -> WithAlt(op_2dup(s), alt)
      [] code = "OP_3DUP" -> WithAlt(op_3dup(s), alt)
      [] code = "OP_2OVER" -> WithAlt(op_2over(s), alt)
      [] code = "OP_2ROT" -> WithAlt(op_2rot(s), alt)
      [] code = "OP_2SWAP" -> WithAlt(op_2swap(s), alt)
      [] code = "OP_IFDUP" -> WithAlt(op_ifdup(s), alt)
      [] code = "OP_DEPTH" -> WithAlt(op_depth(s), alt)
      [] code = "OP_DROP" -> WithAlt(op_drop(s), alt)
      [] code = "OP_DUP" -> WithAlt(op_dup(s), alt)
      [] code = "OP_PICK" -> WithAlt(op_pick(s), alt)
      [] code = "OP_ROLL" -> WithAlt(op_roll(s), alt)
      [] code = "OP_NIP" -> WithAlt(op_nip(s), alt)
      [] code = "OP_OVER" -> WithAlt(op_over(s), alt)
      [] code = "OP_ROT" -> WithAlt(op_rot(s), alt)
      [] code = "OP_SWAP" -> WithAlt(op_swap(s), alt)
      [] code = "OP_TUCK" -> WithAlt(op_tuck(s), alt)
      [] code = "OP_SIZE" -> WithAlt(op_size(s), alt)
      [] code = "OP_EQUAL" -> WithAlt(op_equal(s), alt)
      [] code = "OP_EQUALVERIFY" -> WithAlt(op_equalverify(s), alt)
      [] code = "OP_1ADD" -> WithAlt(op_1add(s), alt)
      [] code = "OP_1SUB" -> WithAlt(op_1sub(s), alt)
      [] code = "OP_NOT" -> WithAlt(op_not(s), alt)
      [] code = "OP_0NOTEQUAL" -> WithAlt(op_0notequal(s), alt)
      [] code = "OP_ADD" -> WithAlt(op_add(s), alt)
      [] code = "OP_SUB" -> WithAlt(op_sub(s), alt)
      [] code = "OP_CREATE" -> WithAlt(Ret(TRUE, s), alt)
      [] code = "OP_HASH256" -> WithAlt(op_hash256(s, "None"), alt)
      [] code = "OP_HASH256V0" -> WithAlt(op_hash256(s, "V0"), alt)
      [] code = "OP_HASH256TEMP" -> WithAlt(op_hash256(s, "TEMP"), alt)
      [] code = "OP_CHECKSIG" -> WithAlt(op_checksig(s), alt)
      [] code = "OP_CHECKMULTISIG" -> WithAlt(op_multisig(s), alt)

\* The interpreter's local state: the index of the next script entry, the
\* two stacks, test_for_return, and what interpret_script has returned
\* ("running" until it returns; "panic" when an opcode aborted).
InterpInit ==
    [ip |-> 1, stack |-> <<>>, alt |-> <<>>, tfr |-> TRUE, ret |-> "running"]

\* A mutant of LoopFinal that does not look at the top of the stack.
LoopFinalNoTop(st) ==
    [st EXCEPT !.ret = IF st.tfr THEN "true" ELSE "false"]

\* A mutant of LoopFinal that also rejects an empty final stack.
LoopFinalNonEmpty(st) ==
    [st EXCEPT !.ret = IF st.tfr /\ Len(st.stack) > 0 /\ Top(st.stack) # Num(0)
                       THEN "true" ELSE "false"]

\* The value returned after the loop:
\* test_for_return && interpreter_stack.last().cloned() != Some(Num(ZERO)).
LoopFinal(st) ==
    [st EXCEPT !.ret = IF st.tfr /\ ~(Len(st.stack) > 0 /\ Top(st.stack) = Num(0))
                       THEN "true" ELSE "false"]

\* A mutant of LoopIter that goes on after an entry has returned false.
LoopIterNoAbort(script, st) ==
    LET e == script[st.ip] IN
    IF ~is_valid_stack(st.stack, st.alt) THEN [st EXCEPT !.ret = "false"]
    ELSE IF e.t = "Op" THEN
        IF e.v \notin DispatchedOps THEN [st EXCEPT !.ret = "false"]
        ELSE LET r == ExecOp(e.v, st.stack, st.alt) IN
             IF r.panic
             THEN [st EXCEPT !.stack = r.stack, !.alt = r.alt, !.ret = "panic"]
             ELSE [st EXCEPT !.ip = st.ip + 1, !.stack = r.stack, !.alt = r.alt,
                             !.tfr = st.tfr /\ r.ok]
    ELSE LET r == push_entry_to_stack(e, st.stack) IN
         [st EXCEPT !.ip = st.ip + 1, !.stack = r.stack, !.tfr = st.tfr /\ r.ok]

\* One iteration of the loop over the script's entries.
LoopIter(script, st) ==
    LET e == script[st.ip] IN
    IF ~is_valid_stack(st.stack, st.alt) THEN [st EXCEPT !.ret = "false"]
    ELSE IF ~st.tfr THEN [st EXCEPT !.ret = "false"]
    ELSE IF e.t = "Op" THEN
        IF e.v \notin DispatchedOps THEN [st EXCEPT !.ret = "false"]
        ELSE LET r == ExecOp(e.v, st.stack, st.alt) IN
             IF r.panic
             THEN [st EXCEPT !.stack = r.stack, !.alt = r.alt, !.ret = "panic"]
             ELSE [st EXCEPT !.ip = st.ip + 1, !.stack = r.stack, !.alt = r.alt,
                             !.tfr = st.tfr /\ r.ok]
    ELSE LET r == push_entry_to_stack(e, st.stack) IN
         [st EXCEPT !.ip = st.ip + 1, !.stack = r.stack, !.tfr = st.tfr /\ r.ok]

RECURSIVE RunLoop(_, _)
RunLoop(script, st) ==
    IF st.ret # "running" THEN st
    ELSE IF st.ip > Len(script) THEN LoopFinal(st)
    ELSE RunLoop(script, LoopIter(script, st))

\* interpret_script(script): "true", "false", or "panic" when it aborts.
interpret_script(script) ==
    IF ~is_valid_script(script) THEN "false"
    ELSE RunLoop(script, InterpInit).ret

(* ------------------------------ state --------------------------------- *)

VARIABLES
    \* interpret_script: the script, the position in the function
    \* ("idle", "start", "loop", "done") and its local state.
    script, pc, interp,
    \* tx_has_valid_p2pkh_sig: its three arguments and what it returned.
    p_args, p_ret,
    \* tx_is_valid: the transaction, the UTXO lookup, the position in the
    \* function, the number of inputs examined, the input accumulator and
    \* what it returned.
    tx, utxo, tpc, examined, tx_ins_spent, tret,
    \* TxHash: the input of a conversion chain (a byte slice or a string),
    \* the position in the chain and the values it has produced.
    th,
    \* A function called as a whole: its name, its arguments, whether it has
    \* returned and what it returned.
    call

scriptVars == <<script, pc, interp>>
p2pkhVars == <<p_args, p_ret>>
txVars == <<tx, utxo, tpc, examined, tx_ins_spent, tret>>
hashVars == <<th>>
callVars == <<call>>
vars == <<scriptVars, p2pkhVars, txVars, hashVars, callVars>>

\* The values of a function that is not running in the specification at hand.
ScriptIdle == script = <<>> /\ pc = "idle" /\ interp = InterpInit
P2pkhIdle == p_args = <<>> /\ p_ret = "idle"
TxIdle ==
    /\ tx = <<>> /\ utxo = <<>> /\ tpc = "idle" /\ examined = 0
    /\ tx_ins_spent = <<>> /\ tret = "idle"
HashIdle == th = <<>>
CallIdle == call = <<>>

(* -------------------- interpret_script, step by step ------------------ *)

\* All sequences over S of length at most n.
SeqsUpTo(S, n) == UNION {[1..k -> S] : k \in 0..n}

\* The data signed in the scripts below.
CheckData == <<48, 48, 48>>

ScriptAlphabet ==
    {Op("OP_0"), Op("OP_1"), Op("OP_ADD"), Op("OP_EQUAL"), Op("OP_DROP"),
     Op("OP_DUP"), Op("OP_VERIFY"), Op("OP_TOALTSTACK"), Op("OP_FROMALTSTACK"),
     Op("OP_CHECKSIG"), Op("OP_HASH256"), Op("OP_CAT"), Op("OP_CHECKMULTISIG"),
     Num(0), Bytes(CheckData), PubKey(1), Signature(sign_detached(CheckData, 1))}

\* Script::pay2pkh: the canonical P2PKH unlock script.
P2PKHScript(check_data, sig, k, hash_op, address) ==
    <<Bytes(check_data), Signature(sig), PubKey(k), Op("OP_DUP"), Op(hash_op),
      PubKeyHash(address), Op("OP_EQUALVERIFY"), Op("OP_CHECKSIG")>>

HashOps == {"OP_HASH256", "OP_HASH256V0", "OP_HASH256TEMP"}

HashOpVersion(hash_op) ==
    CASE hash_op = "OP_HASH256" -> "None"
      [] hash_op = "OP_HASH256V0" -> "V0"
      [] hash_op = "OP_HASH256TEMP" -> "TEMP"

\* The scripts of test_interpret_script and the P2PKH scripts of every key.
FixtureScripts ==
    {<<Op("OP_1"), Op("OP_2"), Op("OP_ADD"), Op("OP_3"), Op("OP_EQUAL")>>,
     <<Op("OP_1"), Op("OP_2"), Op("OP_ADD"), Op("OP_2"), Op("OP_EQUAL")>>}
    \cup
    {P2PKHScript(CheckData, sign_detached(CheckData, k1), k2, h,
                 construct_address_for(k2, HashOpVersion(h)))
        : k1 \in Keys, k2 \in Keys, h \in HashOps}

\* n copies of the entry e.
Rep(e, n) == [i \in 1..n |-> e]

\* A script of ops opcodes followed by Bytes entries, as long as an entry
\* may be, that bring its encoded size to size.
SizedScript(ops, size) ==
    LET data == size - ops
        full == data \div MAX_SCRIPT_ITEM_SIZE
    IN  Rep(Op("OP_1"), ops) \o Rep(Bytes(Str(97, MAX_SCRIPT_ITEM_SIZE)), full)
        \o <<Bytes(Str(97, data - full * MAX_SCRIPT_ITEM_SIZE))>>

\* Scripts at and just over the limits of is_valid_script.
LimitScripts ==
    {SizedScript(MAX_OPS_PER_SCRIPT, MAX_SCRIPT_SIZE),
     SizedScript(MAX_OPS_PER_SCRIPT, MAX_SCRIPT_SIZE + 1),
     SizedScript(MAX_OPS_PER_SCRIPT + 1, MAX_SCRIPT_SIZE)}

\* Scripts of empty Bytes entries that fill the stack to MAX_STACK_SIZE and
\* one and two entries beyond.
StackScripts == {Rep(Bytes(<<>>), MAX_STACK_SIZE + d) : d \in 0..2}

\* Script::multisig_validation: the multisig unlock script
\* [check_data, signatures, m, public keys, n, OP_CHECKMULTISIG].
MultisigScript(check_data, signatures, m, pub_keys, n) ==
    <<Bytes(check_data)>>
    \o [i \in DOMAIN signatures |-> Signature(signatures[i])]
    \o <<Num(m)>>
    \o [i \in DOMAIN pub_keys |-> PubKey(pub_keys[i])]
    \o <<Num(n), Op("OP_CHECKMULTISIG")>>

\* The signatures of a multisig script: one of each key over the check
\* data, and one that no key made.
MultisigSigs == {sign_detached(CheckData, k) : k \in Keys} \cup {JunkSignature}

MultisigScripts ==
    {MultisigScript(CheckData, g, m, k, n) :
        g \in SeqsUpTo(MultisigSigs, MaxMultisig),
        k \in SeqsUpTo(Keys, MaxMultisig),
        m \in 0..MaxMultisig, n \in 0..MaxMultisig}

\* One script for each opcode that interface_ops.rs implements and
\* interpret_script has no match arm for, with the operands the opcode
\* function requires.
DocumentedOpScripts ==
    {<<Bytes(CheckData), Bytes(CheckData), Op("OP_CAT")>>,
     <<Bytes(CheckData), Num(0), Num(1), Op("OP_SUBSTR")>>,
     <<Bytes(CheckData), Num(1), Op("OP_LEFT")>>,
     <<Bytes(CheckData), Num(1), Op("OP_RIGHT")>>}
    \cup {<<Num(1), Op(c)>> : c \in {"OP_INVERT", "OP_2MUL", "OP_2DIV"}}
    \cup {<<Num(1), Num(1), Op(c)>> :
             c \in {"OP_AND", "OP_OR", "OP_XOR", "OP_MUL", "OP_DIV", "OP_MOD",
                    "OP_LSHIFT", "OP_RSHIFT"}}

\* Scripts that push one item at, and one item just over, the size limit.
ItemScripts ==
    {<<[t |-> tag, v |-> Str(97, MAX_SCRIPT_ITEM_SIZE + d)]>> :
        tag \in {"Bytes", "PubKeyHash"}, d \in 0..1}

ScriptSet ==
    SeqsUpTo(ScriptAlphabet, MaxScriptLen) \cup FixtureScripts \cup LimitScripts
    \cup StackScripts \cup MultisigScripts \cup DocumentedOpScripts
    \cup ItemScripts

InitScript ==
    /\ script \in ScriptSet
    /\ pc = "start"
    /\ interp = InterpInit
    /\ P2pkhIdle /\ TxIdle /\ HashIdle /\ CallIdle

\* The pre-flight of interpret_script.
StartScript ==
    /\ pc = "start"
    /\ IF ~is_valid_script(script)
       THEN pc' = "done" /\ interp' = [interp EXCEPT !.ret = "false"]
       ELSE pc' = "loop" /\ interp' = interp
    /\ UNCHANGED <<script, p2pkhVars, txVars, hashVars, callVars>>

\* One iteration of the loop: the limits check, then the entry.
StepEntry ==
    /\ pc = "loop" /\ interp.ip <= Len(script)
    /\ interp' = LoopIter(script, interp)
    /\ pc' = IF interp'.ret = "running" THEN "loop" ELSE "done"
    /\ UNCHANGED <<script, p2pkhVars, txVars, hashVars, callVars>>

\* The return after the last entry.
FinishScript ==
    /\ pc = "loop" /\ interp.ip > Len(script)
    /\ interp' = LoopFinal(interp)
    /\ pc' = "done"
    /\ UNCHANGED <<script, p2pkhVars, txVars, hashVars, callVars>>

NextScript == StartScript \/ StepEntry \/ FinishScript

SpecScript == InitScript /\ [][NextScript]_vars

(* ----------------------- tx_has_valid_p2pkh_sig ---------------------- *)

\* OutPoint { t_hash, n }.
OutPoint(t_hash, n) == [t_hash |-> t_hash, n |-> n]

OutPoints == {OutPoint("tA", 0), OutPoint("tA", 1), OutPoint("tB", 0)}

\* construct_tx_in_signable_hash(outpoint): the hex SHA3-256 digest of
\* "t_hash:<id>-n:<n>", a 64-character string, one per outpoint.
construct_tx_in_signable_hash(o) ==
    Str(100 + 10 * (CASE o.t_hash = "tA" -> 1 [] o.t_hash = "tB" -> 2
                      [] o.t_hash = "tC" -> 3) + o.n, 64)

\* The match of the script against the eight entries of the P2PKH shape.
IsP2PKHShape(s) ==
    /\ Len(s) = 8
    /\ s[1].t = "Bytes"
    /\ s[2].t = "Signature"
    /\ s[3].t = "PubKey"
    /\ s[4] = Op("OP_DUP")
    /\ s[5].t = "Op" /\ s[5].v \in HashOps
    /\ s[6].t = "PubKeyHash"
    /\ s[7] = Op("OP_EQUALVERIFY")
    /\ s[8] = Op("OP_CHECKSIG")

\* "true", "false", or "panic" when the interpreter aborts.
tx_has_valid_p2pkh_sig(s, outpoint_hash, tx_out_pub_key) ==
    IF IsP2PKHShape(s)
    THEN IF s[6].v = tx_out_pub_key /\ s[1].v = outpoint_hash
         THEN interpret_script(s)
         ELSE "false"
    ELSE "false"

Addresses == {construct_address_for(k, v) : k \in Keys, v \in AddressVersions}

SignableHashes == {construct_tx_in_signable_hash(o) : o \in OutPoints}

\* Candidate values of the first three entries of an unlock script.
BytesCands == SignableHashes \cup {<<>>}
SigCands == {sign_detached(m, k) : m \in SignableHashes, k \in Keys} \cup {JunkSignature}

\* The scripts of test_fail_p2pkh_sig_script_empty and _invalid_struct.
NonP2PKHScripts == {<<>>, <<Bytes(<<>>)>>}

InitP2pkh ==
    /\ \E b \in BytesCands, g \in SigCands, k \in Keys, h \in HashOps,
          a \in Addresses, oh \in SignableHashes, pk \in Addresses :
          \E sc \in {P2PKHScript(b, g, k, h, a)} \cup NonP2PKHScripts :
             p_args = [script |-> sc, outpoint_hash |-> oh, tx_out_pub_key |-> pk]
    /\ p_ret = "pending"
    /\ ScriptIdle /\ TxIdle /\ HashIdle /\ CallIdle

CheckP2pkh ==
    /\ p_ret = "pending"
    /\ p_ret' = tx_has_valid_p2pkh_sig(p_args.script, p_args.outpoint_hash,
                                       p_args.tx_out_pub_key)
    /\ UNCHANGED <<p_args, scriptVars, txVars, hashVars, callVars>>

NextP2pkh == CheckP2pkh

SpecP2pkh == InitP2pkh /\ [][NextP2pkh]_vars

(* ------------------------- assets: asset.rs --------------------------- *)

\* Largest asset amount of the model (stands for u64::MAX).
AmountMax == 5

\* Asset::Token(amount) and Asset::Receipt { amount, drs_tx_hash, metadata }
\* (the Item of the specification, its genesis hash and its metadata).
Token(amount) == [kind |-> "Token", amount |-> amount]
Receipt(amount, drs_tx_hash, metadata) ==
    [kind |-> "Receipt", amount |-> amount, drs_tx_hash |-> drs_tx_hash,
     metadata |-> metadata]

is_receipt(a) == a.kind = "Receipt"
get_drs_tx_hash(a) == IF is_receipt(a) THEN a.drs_tx_hash ELSE None
get_metadata(a) == IF is_receipt(a) THEN a.metadata ELSE None

\* Asset::with_fixed_hash(out_point): a receipt stored without a genesis
\* hash takes the hash of the transaction that holds it.
with_fixed_hash(a, o) ==
    IF is_receipt(a) /\ ~a.drs_tx_hash.some
    THEN [a EXCEPT !.drs_tx_hash = Some(o.t_hash)]
    ELSE a

\* AssetValues: the token total and the map from genesis hash to amount;
\* overflow records that a checked addition failed.
AssetValuesDefault ==
    [tokens |-> 0, receipts |-> [h \in {} |-> 0], overflow |-> FALSE]

\* AssetValues::update_add(asset), with checked addition.
update_add(av, a) ==
    IF ~is_receipt(a)
    THEN IF av.tokens + a.amount > AmountMax
         THEN [av EXCEPT !.overflow = TRUE]
         ELSE [av EXCEPT !.tokens = av.tokens + a.amount]
    ELSE IF ~a.drs_tx_hash.some THEN av
    ELSE LET h == a.drs_tx_hash.v
             old == IF h \in DOMAIN av.receipts THEN av.receipts[h] ELSE 0
         IN  IF old + a.amount > AmountMax
             THEN [av EXCEPT !.overflow = TRUE]
             ELSE [av EXCEPT !.receipts =
                      [g \in DOMAIN av.receipts \cup {h} |->
                          IF g = h THEN old + a.amount ELSE av.receipts[g]]]

\* AssetValues::is_equal(other): every class and every key matches exactly.
is_equal(av, other) ==
    av.tokens = other.tokens /\ av.receipts = other.receipts

(* --------------------- tx_is_valid: script_utils.rs ------------------- *)

TxIn(previous_out, script_signature) ==
    [previous_out |-> previous_out, script_signature |-> script_signature]

TxOut(value, script_public_key) ==
    [value |-> value, script_public_key |-> script_public_key]

\* The scripts whose script-hash address the model derives.
P2shScripts == <<<<Op("OP_1")>>, <<Op("OP_CHECKSIG")>>>>

\* construct_p2sh_address(script): P2SH_PREPEND and the hex digest of the
\* script's encoding, 64 characters in all, one digest per script.
construct_p2sh_address(s) ==
    <<P2SH_PREPEND>> \o
    Str(IF \E i \in DOMAIN P2shScripts : P2shScripts[i] = s
        THEN 200 + (CHOOSE i \in DOMAIN P2shScripts : P2shScripts[i] = s)
        ELSE 200 + Len(s) + 10, 63)

\* A mutant of tx_has_valid_p2sh_script that does not compare the address.
tx_has_valid_p2sh_script_noaddr(s, address) == interpret_script(s)

\* "true", "false", or "panic" when the interpreter aborts.
tx_has_valid_p2sh_script(s, address) ==
    IF construct_p2sh_address(s) = address THEN interpret_script(s) ELSE "false"

address_has_valid_length(address) == Len(address) = 32 \/ Len(address) = 64

\* A mutant of tx_outs_are_valid that does not compare the two accumulators.
tx_outs_are_valid_nobalance(tx_outs, spent) ==
    IF \E i \in DOMAIN tx_outs :
          /\ tx_outs[i].script_public_key.some
          /\ ~address_has_valid_length(tx_outs[i].script_public_key.v)
    THEN "false" ELSE "true"

\* tx_outs_are_valid(tx_outs, tx_ins_spent): the first output whose address
\* has an invalid length rejects; otherwise the accumulated outputs must
\* equal the accumulated inputs.
tx_outs_are_valid(tx_outs, spent) ==
    LET Acc[n \in 0..Len(tx_outs)] ==
            IF n = 0 THEN AssetValuesDefault
            ELSE update_add(Acc[n - 1], tx_outs[n].value)
        BadAddress(i) ==
            /\ tx_outs[i].script_public_key.some
            /\ ~address_has_valid_length(tx_outs[i].script_public_key.v)
    IN  IF \E i \in DOMAIN tx_outs : BadAddress(i) THEN "false"
        ELSE IF Acc[Len(tx_outs)].overflow THEN "false"
        ELSE IF is_equal(Acc[Len(tx_outs)], spent) THEN "true" ELSE "false"

\* A mutant of OutputsPreflightFails that does not look at the metadata.
OutputsPreflightFailsNoMetadata(t) ==
    \E i \in DOMAIN t.outputs :
        LET a == t.outputs[i].value IN
        is_receipt(a) /\ ~get_drs_tx_hash(a).some

\* The check of the outputs that opens tx_is_valid.
OutputsPreflightFails(t) ==
    \E i \in DOMAIN t.outputs :
        LET a == t.outputs[i].value IN
        is_receipt(a) /\ (~get_drs_tx_hash(a).some \/ get_metadata(a).some)

\* The body of the loop over the inputs up to the accumulation: "panic"
\* when previous_out.unwrap() or a script aborts, "false" when the input is
\* rejected, "true" when it is accepted.
InputCheck(tx_in, lookup) ==
    IF ~tx_in.previous_out.some THEN "panic"
    ELSE LET tx_out_point == tx_in.previous_out.v
             tx_out == lookup[tx_out_point]
         IN
         IF ~tx_out.some THEN "false"
         ELSE IF ~tx_out.v.script_public_key.some THEN "false"
         ELSE LET pk == tx_out.v.script_public_key.v
                  tx_out_hash == construct_tx_in_signable_hash(tx_out_point)
                  p2pkh == tx_has_valid_p2pkh_sig(tx_in.script_signature,
                                                  tx_out_hash, pk)
              IN  IF p2pkh = "panic" THEN "panic"
                  ELSE IF p2pkh = "true" THEN "true"
                  ELSE tx_has_valid_p2sh_script(tx_in.script_signature, pk)

\* The loop over the inputs, from input n on with the accumulator spent:
\* "panic" or "false" as soon as an input gives it, otherwise "true" and the
\* accumulated inputs.
RECURSIVE InputsLoop(_, _, _, _)
InputsLoop(inputs, lookup, n, spent) ==
    IF n > Len(inputs) THEN [ret |-> "true", spent |-> spent]
    ELSE LET r == InputCheck(inputs[n], lookup) IN
         IF r # "true" THEN [ret |-> r, spent |-> spent]
         ELSE LET tx_out_point == inputs[n].previous_out.v
                  asset == with_fixed_hash(lookup[tx_out_point].v.value,
                                           tx_out_point)
                  acc == update_add(spent, asset)
              IN  IF acc.overflow THEN [ret |-> "false", spent |-> spent]
                  ELSE InputsLoop(inputs, lookup, n + 1, acc)

\* A tx_is_valid that counts the fees among the outputs.
tx_is_valid_fees(t, lookup) ==
    IF OutputsPreflightFails(t) THEN "false"
    ELSE LET r == InputsLoop(t.inputs, lookup, 1, AssetValuesDefault) IN
         IF r.ret # "true" THEN r.ret
         ELSE tx_outs_are_valid(t.outputs \o t.fees, r.spent)

\* tx_is_valid(tx, is_in_utxo) as a whole: "true", "false" or "panic".
tx_is_valid(t, lookup) ==
    IF OutputsPreflightFails(t) THEN "false"
    ELSE LET r == InputsLoop(t.inputs, lookup, 1, AssetValuesDefault) IN
         IF r.ret # "true" THEN r.ret
         ELSE tx_outs_are_valid(t.outputs, r.spent)

(* ----------------------- tx_is_valid, step by step -------------------- *)

MaxInputs == 2
MaxOutputs == 2

\* The unlock script of test_tx_is_valid_common for outpoint o, signed by
\* key g, carrying key k and the address of k under the scheme of hash_op.
UnlockScript(o, g, k, hash_op) ==
    P2PKHScript(construct_tx_in_signable_hash(o),
                sign_detached(construct_tx_in_signable_hash(o), g), k, hash_op,
                construct_address_for(k, HashOpVersion(hash_op)))

\* The UTXO lookup: two token outputs and a receipt without genesis hash
\* locked to key addresses, a receipt locked to a script hash and an output
\* without script_public_key.
UtxoOutPoints ==
    {OutPoint("tA", 0), OutPoint("tA", 1), OutPoint("tB", 0),
     OutPoint("tB", 1), OutPoint("tC", 1)}

Utxo ==
    [o \in UtxoOutPoints |->
        CASE o = OutPoint("tA", 0) ->
                Some(TxOut(Token(3), Some(construct_address_for(1, "None"))))
          [] o = OutPoint("tA", 1) ->
                Some(TxOut(Token(2), Some(construct_address_for(2, "V0"))))
          [] o = OutPoint("tB", 0) ->
                Some(TxOut(Receipt(3, None, None),
                           Some(construct_address_for(1, "TEMP"))))
          [] o = OutPoint("tB", 1) ->
                Some(TxOut(Receipt(2, Some("tC"), None),
                           Some(construct_p2sh_address(P2shScripts[1]))))
          [] o = OutPoint("tC", 1) -> Some(TxOut(Token(3), None))]

\* The same set after tA:0 has been spent: the lookup returns None for it.
UtxoLater == [Utxo EXCEPT ![OutPoint("tA", 0)] = None]

UtxoSet == {Utxo, UtxoLater}

InputCands ==
    {TxIn(Some(OutPoint("tA", 0)), UnlockScript(OutPoint("tA", 0), 1, 1, "OP_HASH256")),
     TxIn(Some(OutPoint("tA", 1)), UnlockScript(OutPoint("tA", 1), 2, 2, "OP_HASH256V0")),
     TxIn(Some(OutPoint("tB", 0)), UnlockScript(OutPoint("tB", 0), 1, 1, "OP_HASH256TEMP")),
     TxIn(Some(OutPoint("tB", 1)), P2shScripts[1]),
     TxIn(Some(OutPoint("tA", 0)), UnlockScript(OutPoint("tA", 0), 2, 1, "OP_HASH256")),
     TxIn(Some(OutPoint("tC", 1)), UnlockScript(OutPoint("tC", 1), 1, 1, "OP_HASH256")),
     TxIn(None, <<>>)}

OutputCands ==
    {TxOut(Token(3), Some(construct_address_for(2, "None"))),
     TxOut(Token(2), None),
     TxOut(Receipt(3, Some("tB"), None), Some(construct_address_for(2, "TEMP"))),
     TxOut(Receipt(2, Some("tC"), None), Some(construct_address_for(1, "V0"))),
     TxOut(Receipt(3, None, None), Some(construct_address_for(2, "None"))),
     TxOut(Receipt(3, Some("tB"), Some("meta")), Some(construct_address_for(2, "None"))),
     TxOut(Token(3), Some(Str(55, 5)))}

InitTx ==
    /\ tx \in [inputs : SeqsUpTo(InputCands, MaxInputs),
               outputs : SeqsUpTo(OutputCands, MaxOutputs)]
    /\ utxo \in UtxoSet
    /\ tpc = "preflight"
    /\ examined = 0
    /\ tx_ins_spent = AssetValuesDefault
    /\ tret = "pending"
    /\ ScriptIdle /\ P2pkhIdle /\ HashIdle /\ CallIdle

\* The loop over the outputs that opens tx_is_valid.
Preflight ==
    /\ tpc = "preflight" /\ tret = "pending"
    /\ IF OutputsPreflightFails(tx)
       THEN tret' = "false" /\ tpc' = tpc
       ELSE tret' = tret /\ tpc' = "inputs"
    /\ UNCHANGED <<tx, utxo, examined, tx_ins_spent, scriptVars, p2pkhVars, hashVars, callVars>>

\* One iteration of the loop over the inputs.
ExamineInput ==
    /\ tpc = "inputs" /\ tret = "pending" /\ examined < Len(tx.inputs)
    /\ examined' = examined + 1
    /\ LET tx_in == tx.inputs[examined + 1]
           r == InputCheck(tx_in, utxo)
       IN  IF r # "true"
           THEN tret' = r /\ tx_ins_spent' = tx_ins_spent
           ELSE LET tx_out_point == tx_in.previous_out.v
                    asset == with_fixed_hash(utxo[tx_out_point].v.value,
                                             tx_out_point)
                    acc == update_add(tx_ins_spent, asset)
                IN  IF acc.overflow
                    THEN tret' = "false" /\ tx_ins_spent' = tx_ins_spent
                    ELSE tret' = tret /\ tx_ins_spent' = acc
    /\ UNCHANGED <<tx, utxo, tpc, scriptVars, p2pkhVars, hashVars, callVars>>

\* The call of tx_outs_are_valid that closes tx_is_valid.
CheckOutputs ==
    /\ tpc = "inputs" /\ tret = "pending" /\ examined = Len(tx.inputs)
    /\ tpc' = "outputs"
    /\ tret' = tx_outs_are_valid(tx.outputs, tx_ins_spent)
    /\ UNCHANGED <<tx, utxo, examined, tx_ins_spent, scriptVars, p2pkhVars, hashVars, callVars>>

NextTx == Preflight \/ ExamineInput \/ CheckOutputs

SpecTx == InitTx /\ [][NextTx]_vars

(* ------------------- claims about interpret_script -------------------- *)

ScriptDone == pc = "done"

\* Every entry of the script was executed or pushed and none returned false.
NoEntryFailed ==
    /\ interp.ip = Len(script) + 1
    /\ interp.tfr
    /\ interp.ret \in {"true", "false"}

\* C1 as stated: for every non-empty script, interpret_script returns true
\* only if, after the last entry, the main stack is non-empty and its top
\* entry is not Num(0).
C1_NonEmptyTop ==
    (ScriptDone /\ Len(script) > 0 /\ interp.ret = "true")
        => (Len(interp.stack) > 0 /\ Top(interp.stack) # Num(0))

\* C1 as amended: for every non-empty script, interpret_script returns true
\* only if every entry has been processed without failure and, after the
\* last entry, the main stack is empty or its top entry is not Num(0).
C1_EmptyOrNonZeroTop ==
    (ScriptDone /\ Len(script) > 0 /\ interp.ret = "true")
        => /\ NoEntryFailed
           /\ (Len(interp.stack) = 0 \/ Top(interp.stack) # Num(0))

\* A non-empty script that returned true with an empty main stack.
C1_Witness ==
    ScriptDone /\ Len(script) > 0 /\ interp.ret = "true" /\ Len(interp.stack) = 0

\* C2: interpret_script returns true for the empty script; when no entry
\* fails it returns false exactly when the final top of the main stack is
\* Num(0); [OP_0] is false, [OP_1] is true, [OP_1, OP_2, OP_ADD, OP_3,
\* OP_EQUAL] is true.
C2_ResultIsTopNonZero ==
    ScriptDone =>
        /\ (script = <<>> => interp.ret = "true")
        /\ (NoEntryFailed =>
               (interp.ret = "false"
                   <=> (Len(interp.stack) > 0 /\ Top(interp.stack) = Num(0))))
        /\ (script = <<Op("OP_0")>> => interp.ret = "false")
        /\ (script = <<Op("OP_1")>> => interp.ret = "true")
        /\ (script = <<Op("OP_1"), Op("OP_2"), Op("OP_ADD"), Op("OP_3"),
                       Op("OP_EQUAL")>> => interp.ret = "true")

\* The arithmetic script of test_interpret_script has run to its end.
C2_Witness ==
    /\ ScriptDone /\ NoEntryFailed
    /\ script = <<Op("OP_1"), Op("OP_2"), Op("OP_ADD"), Op("OP_3"), Op("OP_EQUAL")>>
    /\ interp.stack = <<Num(1)>>

EncodedSize(s) ==
    LET Count(tags) == Cardinality({i \in DOMAIN s : s[i].t \in tags})
        Strings == {i \in DOMAIN s : s[i].t \in {"Bytes", "PubKeyHash"}}
    IN  Count({"Op"}) + 64 * Count({"Signature"}) + 32 * Count({"PubKey"})
        + 8 * Count({"Num"})
        + Cardinality(UNION {{i} \X (1..Len(s[i].v)) : i \in Strings})

OverScriptLimits(s) ==
    \/ EncodedSize(s) > MAX_SCRIPT_SIZE
    \/ Cardinality({i \in DOMAIN s : s[i].t = "Op"}) > MAX_OPS_PER_SCRIPT

\* C11: a script over the size limit or over the opcode limit is rejected
\* by is_valid_script and interpret_script returns false with no entry
\* executed; a script at or under both limits passes that check; so the
\* loop is entered, and true is returned, only for scripts within both
\* limits.
C11_ScriptLimits ==
    /\ pc = "start" => (is_valid_script(script) <=> ~OverScriptLimits(script))
    /\ (pc = "loop" /\ interp = InterpInit) => ~OverScriptLimits(script)
    /\ (pc = "done" /\ OverScriptLimits(script)) =>
          interp = [InterpInit EXCEPT !.ret = "false"]

\* A script exactly at both limits has been accepted.
C11_Witness ==
    /\ ScriptDone /\ interp.ret = "true"
    /\ EncodedSize(script) = MAX_SCRIPT_SIZE
    /\ Cardinality({i \in DOMAIN script : script[i].t = "Op"}) = MAX_OPS_PER_SCRIPT

\* C12: during a run of interpret_script the main and alt stacks never
\* hold more than MAX_STACK_SIZE entries in total, and a script that pushes
\* one entry more than MAX_STACK_SIZE is rejected.
C12_StackWithinLimit ==
    (pc # "idle") =>
        /\ Len(interp.stack) + Len(interp.alt) <= MAX_STACK_SIZE
        /\ (ScriptDone /\ script = Rep(Bytes(<<>>), MAX_STACK_SIZE + 1))
              => interp.ret = "false"

\* C14: once an opcode or a data push has returned false, the next step of
\* interpret_script returns false and leaves both stacks and the position
\* in the script as they are: no later entry is executed or pushed.
C14_NoEntryAfterFailure ==
    [][(pc = "loop" /\ ~interp.tfr) =>
          /\ interp'.ret = "false"
          /\ interp'.stack = interp.stack
          /\ interp'.alt = interp.alt
          /\ interp'.ip = interp.ip]_vars

\* An entry returned false and interpret_script returned false with
\* entries of the script still to come.
C14_Witness ==
    /\ ScriptDone /\ interp.ret = "false" /\ ~interp.tfr
    /\ interp.ip <= Len(script)

\* The step executes the opcode at the current position of the script.
Executes(code) ==
    /\ pc = "loop" /\ interp.ip <= Len(script)
    /\ script[interp.ip] = Op(code)
    /\ interp'.ip = interp.ip + 1

\* C38: OP_TOALTSTACK and OP_FROMALTSTACK move exactly one entry between the
\* stacks and keep the number of entries on main plus alt unchanged;
\* OP_TOALTSTACK followed by OP_FROMALTSTACK restores both stacks; each
\* returns false and changes neither stack when its source stack is empty.
C38_AltStackMoves ==
    [][/\ Executes("OP_TOALTSTACK") =>
            IF Len(interp.stack) = 0
            THEN /\ ~interp'.tfr
                 /\ interp'.stack = interp.stack /\ interp'.alt = interp.alt
            ELSE /\ interp'.tfr
                 /\ interp'.stack = Pop(interp.stack)
                 /\ interp'.alt = Append(interp.alt, Top(interp.stack))
                 /\ Len(interp'.stack) + Len(interp'.alt)
                       = Len(interp.stack) + Len(interp.alt)
                 /\ LET back == op_fromaltstack(interp'.stack, interp'.alt) IN
                    back.ok /\ back.stack = interp.stack /\ back.alt = interp.alt
       /\ Executes("OP_FROMALTSTACK") =>
            IF Len(interp.alt) = 0
            THEN /\ ~interp'.tfr
                 /\ interp'.stack = interp.stack /\ interp'.alt = interp.alt
            ELSE /\ interp'.tfr
                 /\ interp'.alt = Pop(interp.alt)
                 /\ interp'.stack = Append(interp.stack, Top(interp.alt))
                 /\ Len(interp'.stack) + Len(interp'.alt)
                       = Len(interp.stack) + Len(interp.alt)]_vars

\* An entry has been moved to the alt stack and back.
C38_Witness ==
    /\ ScriptDone /\ interp.ret = "true"
    /\ script = <<Op("OP_1"), Op("OP_TOALTSTACK"), Op("OP_FROMALTSTACK")>>
    /\ interp.stack = <<Num(1)>> /\ interp.alt = <<>>

\* C15: a script that uses OP_CAT, OP_SUBSTR, OP_LEFT, OP_RIGHT, OP_INVERT,
\* OP_AND, OP_OR, OP_XOR, OP_2MUL, OP_2DIV, OP_MUL, OP_DIV, OP_MOD, OP_LSHIFT
\* or OP_RSHIFT with the operands it requires is not rejected at that
\* opcode: every entry of the script is executed and none returns false.
C15_DocumentedOpsExecuted ==
    (ScriptDone /\ script \in DocumentedOpScripts) =>
        (interp.ip = Len(script) + 1 /\ interp.tfr)

\* A Bytes or PubKeyHash entry longer than MAX_SCRIPT_ITEM_SIZE.
Oversize(e) ==
    e.t \in {"Bytes", "PubKeyHash"} /\ Len(e.v) > MAX_SCRIPT_ITEM_SIZE

\* C16: a data entry that the loop reaches is pushed exactly when it is
\* not an oversize Bytes or PubKeyHash entry (an entry of exactly
\* MAX_SCRIPT_ITEM_SIZE is pushed), and otherwise the push returns false
\* and leaves the stack; no Op entry and no oversize entry is ever on a
\* stack; a script whose oversize entry was reached is rejected.
C16_DataPush ==
    /\ [](pc # "idle" =>
            /\ \A i \in DOMAIN interp.stack :
                  interp.stack[i].t # "Op" /\ ~Oversize(interp.stack[i])
            /\ \A i \in DOMAIN interp.alt :
                  interp.alt[i].t # "Op" /\ ~Oversize(interp.alt[i])
            /\ (ScriptDone /\ \E i \in 1..(interp.ip - 1) : Oversize(script[i]))
                  => interp.ret = "false")
    /\ [][(/\ pc = "loop" /\ interp.ip <= Len(script) /\ interp.tfr
            /\ is_valid_stack(interp.stack, interp.alt)
            /\ script[interp.ip].t # "Op") =>
              IF Oversize(script[interp.ip])
              THEN interp'.stack = interp.stack /\ ~interp'.tfr
              ELSE /\ interp'.stack = Append(interp.stack, script[interp.ip])
                   /\ interp'.tfr]_vars

\* A Bytes entry of exactly MAX_SCRIPT_ITEM_SIZE characters has been pushed
\* and the script accepted.
C16_Witness ==
    /\ ScriptDone /\ interp.ret = "true"
    /\ Len(interp.stack) = 1
    /\ Top(interp.stack).t = "Bytes"
    /\ Len(Top(interp.stack).v) = MAX_SCRIPT_ITEM_SIZE

\* C13: interpret_script returns a boolean for every script; OP_CHECKSIG,
\* the OP_HASH256 variants and OP_CHECKMULTISIG return false, and do not
\* abort, when the stack lacks their operands or holds other variants.
C13_AlwaysBoolean ==
    ScriptDone => interp.ret \in {"true", "false"}

\* The parts of a multisig unlock script.
MsSignatures(s) ==
    [i \in 1..Cardinality({j \in DOMAIN s : s[j].t = "Signature"}) |-> s[1 + i].v]
MsM(s) == s[2 + Len(MsSignatures(s))].v
MsPubKeys(s) ==
    [i \in 1..Cardinality({j \in DOMAIN s : s[j].t = "PubKey"}) |->
        s[2 + Len(MsSignatures(s)) + i].v]
MsN(s) == s[Len(s) - 1].v

\* The positions of the signatures that verify against some public key.
MsVerifying(s) ==
    {i \in DOMAIN MsSignatures(s) :
        \E j \in DOMAIN MsPubKeys(s) :
            verify_detached(MsSignatures(s)[i], s[1].v, MsPubKeys(s)[j])}

\* C17: a multisig script is accepted only if at least m distinct
\* signatures each verify against some supplied public key; a signature
\* supplied several times counts once.
C17_DistinctSignatures ==
    (ScriptDone /\ script \in MultisigScripts /\ interp.ret = "true") =>
        Cardinality({MsSignatures(script)[i] : i \in MsVerifying(script)})
            >= MsM(script)

\* C18: in multisig matching a signature adds at most one to the count,
\* however many of the public keys it verifies against: a multisig script
\* with enough public keys is accepted exactly when the number of its
\* signatures that verify against some key is at least m.
C18_OneMatchPerSignature ==
    (ScriptDone /\ script \in MultisigScripts) =>
        (interp.ret = "true"
            <=> /\ Len(MsPubKeys(script)) >= MsN(script)
                /\ MsM(script) <= MsN(script)
                /\ Cardinality(MsVerifying(script)) >= MsM(script))

\* One signature that verifies against both of two equal public keys has
\* been counted once, and the script, which requires two, rejected.
C18_Witness ==
    /\ ScriptDone /\ interp.ret = "false"
    /\ script = MultisigScript(CheckData, <<sign_detached(CheckData, 1)>>, 2,
                               <<1, 1>>, 2)

\* The n public keys of a multisig script that lie directly below n.
MsNearestPubKeys(s) ==
    LET k == MsPubKeys(s) IN
    IF MsN(s) >= Len(k) THEN k ELSE SubSeq(k, Len(k) - MsN(s) + 1, Len(k))

\* C32: the multisig opcode pops n and then uses exactly n public keys: it
\* returns false when fewer than n public keys lie directly below n or when
\* m > n, and a script is accepted only on the strength of the n public
\* keys directly below n.
C32_ExactlyNPubKeys ==
    (ScriptDone /\ script \in MultisigScripts) =>
        /\ (Len(MsPubKeys(script)) < MsN(script) \/ MsM(script) > MsN(script))
              => interp.ret = "false"
        /\ interp.ret = "true" =>
              Cardinality({i \in DOMAIN MsSignatures(script) :
                  \E j \in DOMAIN MsNearestPubKeys(script) :
                      verify_detached(MsSignatures(script)[i], script[1].v,
                                      MsNearestPubKeys(script)[j])})
                  >= MsM(script)

(* ---------------- claims about tx_has_valid_p2pkh_sig ----------------- *)

P2pkhDone == p_ret \in {"true", "false", "panic"}

\* The script is the canonical unlock script of key k under hash opcode h
\* for the outpoint hash passed, and the lock address is k's under h's scheme.
IsCanonicalFor(k, h) ==
    LET a == construct_address_for(k, HashOpVersion(h)) IN
    /\ p_args.script = P2PKHScript(p_args.outpoint_hash,
                           sign_detached(p_args.outpoint_hash, k), k, h, a)
    /\ p_args.tx_out_pub_key = a

\* C4: for every key pair and outpoint the canonical P2PKH unlock script,
\* signed with the key over the outpoint's signable hash and carrying the
\* key's address, is accepted against that address, for each of OP_HASH256,
\* OP_HASH256V0 and OP_HASH256TEMP with the matching address scheme.
C4_CanonicalP2pkhAccepted ==
    \A k \in Keys, h \in HashOps :
        (P2pkhDone /\ IsCanonicalFor(k, h)) => p_ret = "true"

\* A canonical script under the V0 scheme has been checked.
C4_Witness ==
    P2pkhDone /\ \E k \in Keys : IsCanonicalFor(k, "OP_HASH256V0") /\ p_ret = "true"

\* The script with entry i replaced by e.
WithEntry(s, i, e) == [s EXCEPT ![i] = e]

\* C5: from an accepted P2PKH unlock script, replacing the signable-hash
\* bytes, the signature or the public key by any different value gives a
\* script that is rejected; a script signed by one key is rejected against
\* an output locked to another key's address.
C5_TamperedP2pkhRejected ==
    /\ (P2pkhDone /\ p_ret = "true") =>
          LET s == p_args.script
              Check(t) == tx_has_valid_p2pkh_sig(t, p_args.outpoint_hash,
                                                 p_args.tx_out_pub_key)
          IN  /\ \A b \in BytesCands \ {s[1].v} :
                    Check(WithEntry(s, 1, Bytes(b))) = "false"
              /\ \A g \in SigCands \ {s[2].v} :
                    Check(WithEntry(s, 2, Signature(g))) = "false"
              /\ \A k \in Keys \ {s[3].v} :
                    Check(WithEntry(s, 3, PubKey(k))) = "false"
    /\ \A k1 \in Keys, k2 \in Keys, v \in AddressVersions :
          ( /\ k1 # k2
            /\ P2pkhDone
            /\ IsP2PKHShape(p_args.script)
            /\ p_args.script[2].v = sign_detached(p_args.outpoint_hash, k1)
            /\ p_args.tx_out_pub_key = construct_address_for(k2, v) )
          => p_ret = "false"

\* An accepted script, whose bytes, signature and key are then replaced.
C5_Witness ==
    /\ P2pkhDone /\ p_ret = "true"
    /\ IsP2PKHShape(p_args.script)
    /\ p_args.script[5] = Op("OP_HASH256TEMP")
    /\ p_args.script[3] = PubKey(2)

(* ----------------------- claims about tx_is_valid --------------------- *)

TxRunning == tpc \in {"preflight", "inputs", "outputs"}
TxDone == tret \in {"true", "false", "panic"}

\* Input i has been examined and the loop went on past it.
Accepted(i) ==
    \/ i < examined
    \/ i = examined /\ ~(tpc = "inputs" /\ tret \in {"false", "panic"})

\* The assets of the outputs that the inputs reference, as accumulated.
InputAssets ==
    [i \in DOMAIN tx.inputs |->
        with_fixed_hash(utxo[tx.inputs[i].previous_out.v].v.value,
                        tx.inputs[i].previous_out.v)]

OutputAssets == [i \in DOMAIN tx.outputs |-> tx.outputs[i].value]

GenesisHashes == {"tA", "tB", "tC"}

\* The token total and the total of the receipts of genesis hash h.
TokenTotal(assets) ==
    LET S[n \in 0..Len(assets)] ==
            IF n = 0 THEN 0
            ELSE S[n - 1] + (IF is_receipt(assets[n]) THEN 0 ELSE assets[n].amount)
    IN  S[Len(assets)]

ReceiptTotal(assets, h) ==
    LET S[n \in 0..Len(assets)] ==
            IF n = 0 THEN 0
            ELSE S[n - 1] + (IF is_receipt(assets[n]) /\ assets[n].drs_tx_hash = Some(h)
                             THEN assets[n].amount ELSE 0)
    IN  S[Len(assets)]

HasNonePreviousOut == \E i \in DOMAIN tx.inputs : ~tx.inputs[i].previous_out.some

\* C6: tx_is_valid returns false, as an ordinary boolean result, for every
\* transaction that has an input whose previous_out is None.
C6_NonePreviousOutReturnsFalse ==
    (TxRunning /\ TxDone /\ HasNonePreviousOut) => tret = "false"

\* Input i names an outpoint that the lookup does not resolve, or whose
\* output has no script_public_key.
Unresolved(i) ==
    /\ tx.inputs[i].previous_out.some
    /\ LET tx_out == utxo[tx.inputs[i].previous_out.v] IN
       ~tx_out.some \/ ~tx_out.v.script_public_key.some

\* C7: tx_is_valid returns false for a transaction with an input whose
\* outpoint the UTXO lookup does not resolve or whose referenced output has
\* no script_public_key, and no input after it is examined.
C7_UnresolvedInputReturnsFalse ==
    (TxRunning /\ TxDone) =>
        \A i \in DOMAIN tx.inputs :
            Unresolved(i) => (tret = "false" /\ examined <= i)

\* Some output is a receipt without genesis hash or with metadata.
HasIllegalReceiptOutput ==
    \E i \in DOMAIN tx.outputs :
        LET a == tx.outputs[i].value IN
        is_receipt(a) /\ (~a.drs_tx_hash.some \/ a.metadata.some)

\* C8: a transaction with a receipt output whose genesis hash is None or
\* whose metadata is Some never gets past the check of the outputs that
\* opens tx_is_valid: no input is examined and the result is false.
C8_IllegalReceiptRejectedFirst ==
    (TxRunning /\ HasIllegalReceiptOutput) =>
        /\ tpc = "preflight" /\ examined = 0
        /\ TxDone => tret = "false"

\* A receipt output with metadata has been rejected although the first
\* input has no previous_out and the lookup would not resolve a later one.
C8_Witness ==
    /\ TxRunning /\ tret = "false"
    /\ \E i \in DOMAIN tx.outputs :
          is_receipt(tx.outputs[i].value) /\ tx.outputs[i].value.metadata.some
    /\ Len(tx.inputs) > 0 /\ ~tx.inputs[1].previous_out.some

\* C9: an input is accepted only if its outpoint resolves to an output with
\* a script_public_key and the P2PKH check or the P2SH check passes; and
\* tx_has_valid_p2sh_script(script, address) is true exactly when
\* construct_p2sh_address(script) = address and interpret_script(script)
\* is true.
C9_InputAcceptedByP2pkhOrP2sh ==
    TxRunning =>
        /\ \A i \in 1..examined :
              Accepted(i) =>
                  /\ tx.inputs[i].previous_out.some
                  /\ ~Unresolved(i)
                  /\ LET o == tx.inputs[i].previous_out.v
                         pk == utxo[o].v.script_public_key.v
                         s == tx.inputs[i].script_signature
                     IN  \/ tx_has_valid_p2pkh_sig(
                                s, construct_tx_in_signable_hash(o), pk) = "true"
                         \/ tx_has_valid_p2sh_script(s, pk) = "true"
        /\ \A i \in 1..examined, o \in UtxoOutPoints :
              (utxo[o].some /\ utxo[o].v.script_public_key.some) =>
                  LET pk == utxo[o].v.script_public_key.v
                      s == tx.inputs[i].script_signature
                  IN  (tx_has_valid_p2sh_script(s, pk) = "true")
                      <=> ( /\ construct_p2sh_address(s) = pk
                            /\ interpret_script(s) = "true" )

\* An input has been accepted by the P2SH check alone.
C9_Witness ==
    /\ TxRunning
    /\ \E i \in 1..examined :
          /\ Accepted(i)
          /\ LET o == tx.inputs[i].previous_out.v
                 pk == utxo[o].v.script_public_key.v
                 s == tx.inputs[i].script_signature
             IN  /\ tx_has_valid_p2pkh_sig(
                        s, construct_tx_in_signable_hash(o), pk) = "false"
                 /\ tx_has_valid_p2sh_script(s, pk) = "true"

HasBadOutputAddress ==
    \E i \in DOMAIN tx.outputs :
        /\ tx.outputs[i].script_public_key.some
        /\ ~address_has_valid_length(tx.outputs[i].script_public_key.v)

\* C10: every output address of an accepted transaction has length 32 or
\* 64, and tx_is_valid returns false for every transaction with an output
\* address of another length.
C10_OutputAddressLength ==
    (TxRunning /\ TxDone) =>
        /\ tret = "true" => ~HasBadOutputAddress
        /\ HasBadOutputAddress => tret = "false"


\* The inputs that reference an outpoint no earlier input references.
FirstReferences ==
    {i \in DOMAIN tx.inputs :
        \A j \in 1..(i - 1) : tx.inputs[j].previous_out # tx.inputs[i].previous_out}

\* The assets of the distinct outputs that the inputs reference; an output
\* referenced again counts as an empty token amount.
DistinctInputAssets ==
    [i \in DOMAIN tx.inputs |->
        IF i \in FirstReferences THEN InputAssets[i] ELSE Token(0)]

\* C37: tx_is_valid counts each unspent output at most once: a transaction
\* in which two inputs reference the same outpoint is not accepted with
\* outputs whose total exceeds the value of the distinct outputs it
\* references.
C37_OutPointCountedOnce ==
    (TxRunning /\ tret = "true") =>
        /\ TokenTotal(OutputAssets) <= TokenTotal(DistinctInputAssets)
        /\ \A h \in GenesisHashes :
              ReceiptTotal(OutputAssets, h) <= ReceiptTotal(DistinctInputAssets, h)

(* --------------------- TxHash: transaction.rs ------------------------- *)

\* A string is the sequence of its UTF-8 bytes, a slice the sequence of its
\* bytes (0..255).
TX_HASH_LENGTH == 32
TX_HASH_LENGTH_BYTES == TX_HASH_LENGTH \div 2
\* 'g'
TX_PREPEND == 103

\* Result<TxHash, TxHashError>: a TxHash is its array of bytes.
TxHashOk(bytes) == [ok |-> TRUE, bytes |-> bytes, err |-> ""]
TxHashErr(e) == [ok |-> FALSE, bytes |-> <<>>, err |-> e]

\* hex::encode_to_slice: two lowercase digits per byte, high nibble first.
HexChar(d) == IF d < 10 THEN 48 + d ELSE 87 + d
hex_encode_to_slice(bytes) ==
    [i \in 1..(2 * Len(bytes)) |->
        IF i % 2 = 1 THEN HexChar(bytes[(i + 1) \div 2] \div 16)
        ELSE HexChar(bytes[i \div 2] % 16)]

\* hex::decode_to_slice: the value of a digit, -1 for any other character;
\* the digits a..f are accepted in either case.
HexVal(c) ==
    IF c >= 48 /\ c <= 57 THEN c - 48
    ELSE IF c >= 97 /\ c <= 102 THEN c - 87
    ELSE IF c >= 65 /\ c <= 70 THEN c - 55
    ELSE 0 - 1
hex_decode_to_slice(chars) ==
    IF \E i \in 1..Len(chars) : HexVal(chars[i]) < 0
    THEN TxHashErr("InvalidHexData")
    ELSE TxHashOk([i \in 1..(Len(chars) \div 2) |->
                      16 * HexVal(chars[2 * i - 1]) + HexVal(chars[2 * i])])

\* A from_slice that does not look at the last byte.
TxHash_from_slice_nobits(slice) ==
    IF Len(slice) # TX_HASH_LENGTH_BYTES THEN TxHashErr("BadByteCount")
    ELSE TxHashOk(slice)

\* TxHash::from_slice.
TxHash_from_slice(slice) ==
    IF Len(slice) # TX_HASH_LENGTH_BYTES THEN TxHashErr("BadByteCount")
    ELSE IF slice[TX_HASH_LENGTH_BYTES] % 16 # 0 THEN TxHashErr("BadZeroBits")
    ELSE TxHashOk(slice)

\* TxHash::from_hash: the first chunk of a SHA3-256 digest (32 bytes) with
\* the low nibble of its last byte cleared; the unwrap of from_slice aborts
\* on an error.
TxHash_from_hash(hash) ==
    LET first == SubSeq(hash, 1, TX_HASH_LENGTH_BYTES)
        chunk == [first EXCEPT ![TX_HASH_LENGTH_BYTES] = (@ \div 16) * 16]
        r == TxHash_from_slice(chunk)
    IN IF r.ok THEN r ELSE TxHashErr("panic")

\* Display for TxHash: the prefix and the hex digits without the last one.
TxHash_fmt(bytes) ==
    SubSeq(<<TX_PREPEND>> \o hex_encode_to_slice(bytes), 1, TX_HASH_LENGTH)

\* TxHash::from_str with the padding character as a parameter.
TxHash_from_str_padded(input, pad) ==
    IF Len(input) # TX_HASH_LENGTH THEN TxHashErr("InvalidStringLength")
    ELSE IF input[1] # TX_PREPEND THEN TxHashErr("InvalidPrefix")
    ELSE LET chars == SubSeq(input, 2, TX_HASH_LENGTH) \o <<pad>>
             bytes == hex_decode_to_slice(chars)
         IN IF ~bytes.ok THEN bytes ELSE TxHash_from_slice(bytes.bytes)

\* A parser that pads with '1'.
TxHash_from_str_pad1(input) == TxHash_from_str_padded(input, 49)

\* A parser that looks at the prefix before the length.
TxHash_from_str_prefix_first(input) ==
    IF Len(input) > 0 /\ input[1] # TX_PREPEND THEN TxHashErr("InvalidPrefix")
    ELSE TxHash_from_str_padded(input, 48)

\* TxHash::from_str: the padding character is '0'.
TxHash_from_str(input) == TxHash_from_str_padded(input, 48)

\* The inputs: slices and strings whose length is within TxHashSlack of the
\* right one, with a first, a repeated middle and a last element, and the
\* hash of test_tx_hash_string in both forms.
ByteCands == {0, 9, 10, 26, 160, 175, 240, 255}
\* '0' '9' 'a' 'f' 'A' 'F' 'g' 'x'
CharCands == {48, 57, 97, 102, 65, 70, 103, 120}
\* 'g' 'G' '0'
PrefixCands == {103, 71, 48}
Shaped(first, mid, last, n) ==
    [i \in 1..n |-> IF i = 1 THEN first ELSE IF i = n THEN last ELSE mid]
TestHashBytes ==
    <<26, 48, 216, 37, 120, 112, 181, 208, 119, 252, 85, 209, 250, 166, 58, 160>>
TestHashString ==
    <<103, 49, 97, 51, 48, 100, 56, 50, 53, 55, 56, 55, 48, 98, 53, 100,
      48, 55, 55, 102, 99, 53, 53, 100, 49, 102, 97, 97, 54, 51, 97, 97>>
SliceCands ==
    {Shaped(a, b, c, n) : a \in ByteCands, b \in ByteCands, c \in ByteCands,
        n \in (TX_HASH_LENGTH_BYTES - TxHashSlack)..(TX_HASH_LENGTH_BYTES + TxHashSlack)}
    \cup {TestHashBytes}
DigestCands ==
    {[i \in 1..(2 * TX_HASH_LENGTH_BYTES) |->
         IF i = 1 THEN a ELSE IF i = TX_HASH_LENGTH_BYTES THEN c ELSE b] :
        a \in ByteCands, b \in ByteCands, c \in ByteCands}
StringCands ==
    {Shaped(p, m, l, n) : p \in PrefixCands, m \in CharCands, l \in CharCands,
        n \in (TX_HASH_LENGTH - TxHashSlack)..(TX_HASH_LENGTH + TxHashSlack)}
    \cup {TestHashString}

\* Three chains: from a slice, from_slice, to_string, parse; from a string,
\* parse, to_string; from a digest, from_hash.
InitTxHash ==
    /\ \/ \E d \in DigestCands :
            th = [kind |-> "hash", input |-> d, pc |-> "from_hash",
                  hash |-> TxHashErr(""), str |-> <<>>, parsed |-> TxHashErr("")]
       \/ \E b \in SliceCands :
            th = [kind |-> "slice", input |-> b, pc |-> "from_slice",
                  hash |-> TxHashErr(""), str |-> <<>>, parsed |-> TxHashErr("")]
       \/ \E s \in StringCands :
            th = [kind |-> "string", input |-> s, pc |-> "parse",
                  hash |-> TxHashErr(""), str |-> <<>>, parsed |-> TxHashErr("")]
    /\ ScriptIdle /\ P2pkhIdle /\ TxIdle /\ CallIdle

HashFromSlice ==
    /\ th.pc = "from_slice"
    /\ LET r == TxHash_from_slice(th.input) IN
       th' = [th EXCEPT !.hash = r, !.pc = IF r.ok THEN "to_string" ELSE "done"]
    /\ UNCHANGED <<scriptVars, p2pkhVars, txVars, callVars>>

HashFromHash ==
    /\ th.pc = "from_hash"
    /\ th' = [th EXCEPT !.hash = TxHash_from_hash(th.input), !.pc = "done"]
    /\ UNCHANGED <<scriptVars, p2pkhVars, txVars, callVars>>

HashToString ==
    /\ th.pc = "to_string"
    /\ LET h == IF th.kind = "slice" THEN th.hash ELSE th.parsed IN
       th' = [th EXCEPT !.str = TxHash_fmt(h.bytes),
                        !.pc = IF th.kind = "slice" THEN "parse" ELSE "done"]
    /\ UNCHANGED <<scriptVars, p2pkhVars, txVars, callVars>>

HashParse ==
    /\ th.pc = "parse"
    /\ LET r == TxHash_from_str(IF th.kind = "slice" THEN th.str ELSE th.input) IN
       th' = [th EXCEPT !.parsed = r,
                        !.pc = IF th.kind = "string" /\ r.ok THEN "to_string"
                               ELSE "done"]
    /\ UNCHANGED <<scriptVars, p2pkhVars, txVars, callVars>>

NextTxHash == HashFromSlice \/ HashFromHash \/ HashToString \/ HashParse

SpecTxHash == InitTxHash /\ [][NextTxHash]_vars

(* ------------------------ claims about TxHash ------------------------- *)

HashChainDone(kind) == th # <<>> /\ th.kind = kind /\ th.pc = "done"

\* C19: for every 16-byte array whose last byte has a zero low nibble,
\* from_slice succeeds, the string form of the hash has exactly 32
\* characters and starts with 'g', and parsing it gives the same TxHash.
C19_RoundTrip ==
    (/\ HashChainDone("slice")
     /\ Len(th.input) = 16
     /\ th.input[Len(th.input)] % 16 = 0) =>
        /\ th.hash = TxHashOk(th.input)
        /\ Len(th.str) = 32
        /\ th.str[1] = 103
        /\ th.parsed = th.hash

C19_Witness ==
    /\ HashChainDone("slice")
    /\ th.input = TestHashBytes
    /\ th.str = TestHashString
    /\ th.parsed = TxHashOk(TestHashBytes)

\* C21: from_slice fails with BadByteCount when the slice is not exactly 16
\* bytes and with BadZeroBits when the low nibble of the last byte is not
\* zero; every TxHash made by from_slice, from_hash or from_str has 16 bytes
\* and a zero low nibble in the last one.
WellFormedHash(r) ==
    r.ok => /\ Len(r.bytes) = 16
            /\ r.bytes[16] % 16 = 0
C21_ZeroLowNibble ==
    /\ HashChainDone("slice") =>
          /\ Len(th.input) # 16 => th.hash = TxHashErr("BadByteCount")
          /\ (Len(th.input) = 16 /\ th.input[16] % 16 # 0) =>
                th.hash = TxHashErr("BadZeroBits")
    /\ HashChainDone("hash") => th.hash.ok
    /\ WellFormedHash(th.hash)
    /\ WellFormedHash(th.parsed)

C21_Witness ==
    /\ HashChainDone("hash")
    /\ th.input[16] = 175
    /\ th.hash.ok /\ th.hash.bytes[16] = 160

\* C20: from_str accepts a string only if it has exactly 32 characters, the
\* first 'g' and the other 31 lowercase hex digits, so that the string form
\* of the parsed hash is the string that was parsed.
LowerHex(c) == (c >= 48 /\ c <= 57) \/ (c >= 97 /\ c <= 102)
C20_AcceptsCanonicalOnly ==
    (HashChainDone("string") /\ th.parsed.ok) =>
        /\ Len(th.input) = 32
        /\ th.input[1] = 103
        /\ \A i \in 2..Len(th.input) : LowerHex(th.input[i])
        /\ th.str = th.input

\* C34: from_str checks in this order: a length other than 32 gives
\* InvalidStringLength whatever the content; otherwise a first character
\* other than 'g' gives InvalidPrefix; otherwise a character among the
\* remaining 31 that is no hex digit gives InvalidHexData; otherwise the
\* string is accepted, so a 31-digit payload never gives BadZeroBits.
HexDigit(c) == LowerHex(c) \/ (c >= 65 /\ c <= 70)
C34_ParseOrder ==
    (th # <<>> /\ th.kind = "string" /\ th.pc # "parse") =>
        IF Len(th.input) # 32 THEN th.parsed = TxHashErr("InvalidStringLength")
        ELSE IF th.input[1] # 103 THEN th.parsed = TxHashErr("InvalidPrefix")
        ELSE IF \E i \in 2..32 : ~HexDigit(th.input[i])
             THEN th.parsed = TxHashErr("InvalidHexData")
        ELSE th.parsed.ok

\* A string of the wrong length, with the wrong prefix and with characters
\* that are no hex digits, has been refused for its length.
C34_Witness ==
    /\ HashChainDone("string")
    /\ Len(th.input) = 33 /\ th.input[1] = 71 /\ th.input[2] = 120
    /\ th.parsed = TxHashErr("InvalidStringLength")


(* ------------- Transaction: primitives/transaction.rs ----------------- *)

\* Transaction { inputs, outputs, version, fees, druid_info }.
Transaction(inputs, outputs, version, fees, druid_info) ==
    [inputs |-> inputs, outputs |-> outputs, version |-> version,
     fees |-> fees, druid_info |-> druid_info]

\* constants::NETWORK_VERSION; no function of the model reads the version
\* of a transaction.
NETWORK_VERSION == 6

\* Transaction::new() with the given inputs and outputs.
NewTransaction(inputs, outputs) ==
    Transaction(inputs, outputs, NETWORK_VERSION, <<>>, None)

is_token(a) == a.kind = "Token"

\* A get_create_asset that does not look at previous_out.
get_create_asset_noprev(t) ==
    IF Len(t.inputs) = 1 /\ Len(t.outputs) = 1
    THEN Some(t.outputs[1].value) ELSE None

\* Transaction::get_create_asset.
get_create_asset(t) ==
    IF /\ Len(t.inputs) = 1
       /\ ~t.inputs[1].previous_out.some
       /\ Len(t.outputs) = 1
    THEN Some(t.outputs[1].value) ELSE None

\* Transaction::is_coinbase and Transaction::is_create_tx.
is_coinbase(t) ==
    LET a == get_create_asset(t) IN IF a.some THEN is_token(a.v) ELSE FALSE
is_create_tx(t) ==
    LET a == get_create_asset(t) IN IF a.some THEN ~is_token(a.v) ELSE FALSE

(* ------------- tx_has_valid_create_script: script_utils.rs ------------ *)

\* constants::MAX_METADATA_BYTES.
MAX_METADATA_BYTES == 800

\* construct_tx_in_signable_asset_hash(asset): the hex SHA3-256 digest of
\* the encoding of the asset's kind and amount, a 64-character string.
construct_tx_in_signable_asset_hash(asset) ==
    Str((IF is_token(asset) THEN 150 ELSE 170) + asset.amount, 64)

receipt_has_valid_size(receipt) ==
    IF receipt.metadata.some
    THEN Len(receipt.metadata.v) <= MAX_METADATA_BYTES
    ELSE TRUE

\* The match of the script against the seven entries of the create shape.
IsCreateShape(s) ==
    /\ Len(s) = 7
    /\ s[1] = Op("OP_CREATE")
    /\ s[2].t = "Num"
    /\ s[3] = Op("OP_DROP")
    /\ s[4].t = "Bytes"
    /\ s[5].t = "Signature"
    /\ s[6].t = "PubKey"
    /\ s[7] = Op("OP_CHECKSIG")

\* A tx_has_valid_create_script that does not compare the hash.
tx_has_valid_create_script_nohash(s, asset) ==
    IF is_receipt(asset) /\ ~receipt_has_valid_size(asset) THEN "false"
    ELSE IF IsCreateShape(s) THEN interpret_script(s)
    ELSE "false"

\* "true", "false", or "panic" when the interpreter aborts.
tx_has_valid_create_script(s, asset) ==
    LET asset_hash == construct_tx_in_signable_asset_hash(asset) IN
    IF is_receipt(asset) /\ ~receipt_has_valid_size(asset) THEN "false"
    ELSE IF IsCreateShape(s)
         THEN IF s[4].v = asset_hash THEN interpret_script(s) ELSE "false"
    ELSE "false"

\* Script::new_create_asset(block_number, asset_hash, signature, pub_key).
CreateScript(block_number, asset_hash, signature, pub_key) ==
    <<Op("OP_CREATE"), Num(block_number), Op("OP_DROP"), Bytes(asset_hash),
      Signature(signature), PubKey(pub_key), Op("OP_CHECKSIG")>>

\* The assets of the create tests: a token, receipts without metadata, with
\* metadata of the largest size and with metadata one byte larger.
CreateAssets ==
    {Token(1), Token(2), Receipt(1, None, None),
     Receipt(1, None, Some(Str(0, MAX_METADATA_BYTES))),
     Receipt(1, None, Some(Str(0, MAX_METADATA_BYTES + 1)))}

\* Create scripts over the hashes of these assets, signed over any of the
\* hashes by any key or not at all, and scripts next to the shape: without
\* OP_CREATE, with an entry after OP_CHECKSIG, with Bytes for the number.
CreateScripts ==
    LET hashes == {construct_tx_in_signable_asset_hash(a) : a \in CreateAssets}
        sigs == {sign_detached(h, k) : h \in hashes, k \in Keys}
                    \cup {JunkSignature}
        built == {CreateScript(0, h, g, k) : h \in hashes, g \in sigs, k \in Keys}
    IN  built
        \cup {SubSeq(s, 2, 7) : s \in built}
        \cup {s \o <<Op("OP_1")>> : s \in built}
        \cup {[s EXCEPT ![2] = Bytes(<<>>)] : s \in built}

(* --------------------- functions called as a whole -------------------- *)

Call(fn, args) == [fn |-> fn, args |-> args, done |-> FALSE, ret |-> <<>>]
Calling(fn) == call.fn = fn /\ ~call.done
Return(r) == call' = [call EXCEPT !.done = TRUE, !.ret = r]
Returned(fn) == call.fn = fn /\ call.done

\* The transactions whose kind is asked for.
KindTxs ==
    {NewTransaction(i, o) : i \in SeqsUpTo(InputCands, MaxInputs),
                            o \in SeqsUpTo(OutputCands, MaxOutputs)}

\* The values of the fields tx_is_valid has no use for.
VersionCands == {NETWORK_VERSION, 0}
FeesCands == {<<>>, <<TxOut(Token(1), None)>>}
DruidCands == {None, Some("druid")}

\* The transactions handed to tx_is_valid as a whole.
WholeTxs ==
    {Transaction(i, o, v, f, d) :
        i \in SeqsUpTo(InputCands, MaxCallLen),
        o \in SeqsUpTo(OutputCands, MaxCallLen),
        v \in VersionCands, f \in FeesCands, d \in DruidCands}

InitTxFns ==
    /\ \/ \E t \in KindTxs : call = Call("is_create", [tx |-> t])
       \/ \E s \in CreateScripts, a \in CreateAssets :
             call = Call("tx_has_valid_create_script", [script |-> s, asset |-> a])
       \/ \E t \in WholeTxs, u \in UtxoSet :
             call = Call("tx_is_valid", [tx |-> t, utxo |-> u])
    /\ ScriptIdle /\ P2pkhIdle /\ TxIdle /\ HashIdle

\* is_coinbase and is_create_tx of one transaction.
CallIsCreate ==
    /\ Calling("is_create")
    /\ Return([is_coinbase |-> is_coinbase(call.args.tx),
               is_create_tx |-> is_create_tx(call.args.tx)])
    /\ UNCHANGED <<scriptVars, p2pkhVars, txVars, hashVars>>

CallCreateScript ==
    /\ Calling("tx_has_valid_create_script")
    /\ Return(tx_has_valid_create_script(call.args.script, call.args.asset))
    /\ UNCHANGED <<scriptVars, p2pkhVars, txVars, hashVars>>

CallTxIsValid ==
    /\ Calling("tx_is_valid")
    /\ Return(tx_is_valid(call.args.tx, call.args.utxo))
    /\ UNCHANGED <<scriptVars, p2pkhVars, txVars, hashVars>>

NextTxFns == CallIsCreate \/ CallCreateScript \/ CallTxIsValid

SpecTxFns == InitTxFns /\ [][NextTxFns]_vars

(* --------------------- claims about Transaction ----------------------- *)

\* One input without previous_out and one output.
CreateShape(t) ==
    /\ Len(t.inputs) = 1
    /\ t.inputs[1].previous_out = None
    /\ Len(t.outputs) = 1

\* C22: is_coinbase is true exactly for a transaction with one input whose
\* previous_out is None and one output that is a Token, is_create_tx exactly
\* for such a transaction whose output is not a Token; the two are never
\* both true and both are false for every other transaction.
C22_CreateKinds ==
    Returned("is_create") =>
        LET t == call.args.tx IN
        /\ call.ret.is_coinbase <=>
              (CreateShape(t) /\ t.outputs[1].value.kind = "Token")
        /\ call.ret.is_create_tx <=>
              (CreateShape(t) /\ t.outputs[1].value.kind # "Token")
        /\ ~(call.ret.is_coinbase /\ call.ret.is_create_tx)
        /\ ~CreateShape(t) => (~call.ret.is_coinbase /\ ~call.ret.is_create_tx)

\* An asset-mint: one input without previous_out, one receipt output.
C22_Witness ==
    /\ Returned("is_create")
    /\ CreateShape(call.args.tx)
    /\ call.ret = [is_coinbase |-> FALSE, is_create_tx |-> TRUE]


\* What a valid create script for an asset is: the seven entries, the
\* asset's signable hash, a signature over it by the public key, and for a
\* receipt metadata within the limit.
ValidCreate(s, asset) ==
    /\ Len(s) = 7
    /\ s[1] = Op("OP_CREATE") /\ s[2].t = "Num" /\ s[3] = Op("OP_DROP")
    /\ s[4].t = "Bytes" /\ s[5].t = "Signature" /\ s[6].t = "PubKey"
    /\ s[7] = Op("OP_CHECKSIG")
    /\ s[4].v = construct_tx_in_signable_asset_hash(asset)
    /\ verify_detached(s[5].v, s[4].v, s[6].v)
    /\ (asset.kind = "Receipt" /\ asset.metadata # None) =>
          Len(asset.metadata.v) <= MAX_METADATA_BYTES

\* C23: tx_has_valid_create_script(script, asset) is true only if the script
\* is exactly [OP_CREATE, Num, OP_DROP, Bytes(h), Signature, PubKey,
\* OP_CHECKSIG], h is the signable asset hash of asset, the signature
\* verifies over h with the public key and an Item's metadata is at most
\* MAX_METADATA_BYTES; a correctly built and signed create script is
\* accepted.
C23_CreateScript ==
    Returned("tx_has_valid_create_script") =>
        (call.ret = "true" <=> ValidCreate(call.args.script, call.args.asset))

\* The receipt with the largest metadata and its signed create script.
C23_Witness ==
    /\ Returned("tx_has_valid_create_script")
    /\ call.args.asset = Receipt(1, None, Some(Str(0, MAX_METADATA_BYTES)))
    /\ call.args.script =
          CreateScript(0, construct_tx_in_signable_asset_hash(call.args.asset),
              sign_detached(construct_tx_in_signable_asset_hash(call.args.asset), 1), 1)
    /\ call.ret = "true"


\* C24: the result of tx_is_valid does not depend on the transaction's
\* fees, druid_info or version: every transaction that differs from the one
\* validated only in these fields gets the same result under the same UTXO
\* lookup.
C24_IgnoresFeesDruidVersion ==
    Returned("tx_is_valid") =>
        \A v \in VersionCands, f \in FeesCands, d \in DruidCands :
            tx_is_valid([call.args.tx EXCEPT !.version = v, !.fees = f,
                                             !.druid_info = d],
                        call.args.utxo) = call.ret

\* An accepted transaction with fees, druid_info and another version.
C24_Witness ==
    /\ Returned("tx_is_valid")
    /\ call.ret = "true"
    /\ call.args.tx.inputs # <<>>
    /\ call.args.tx.fees # <<>>
    /\ call.args.tx.druid_info # None
    /\ call.args.tx.version # NETWORK_VERSION


(* -------------------- opcodes called as functions --------------------- *)

ArithOps ==
    {"op_1add", "op_1sub", "op_2mul", "op_add", "op_sub", "op_mul", "op_div",
     "op_mod"}
ShiftOps == {"op_lshift", "op_rshift"}

\* The opcode function of a name.
OpFn(fn, s) ==
    CASE fn = "op_1add" -> op_1add(s)
      [] fn = "op_1sub" -> op_1sub(s)
      [] fn = "op_2mul" -> op_2mul(s)
      [] fn = "op_add" -> op_add(s)
      [] fn = "op_sub" -> op_sub(s)
      [] fn = "op_mul" -> op_mul(s)
      [] fn = "op_div" -> op_div(s)
      [] fn = "op_mod" -> op_mod(s)
      [] fn = "op_lshift" -> op_lshift(s)
      [] fn = "op_rshift" -> op_rshift(s)
      [] fn = "op_pick" -> op_pick(s)
      [] fn = "op_roll" -> op_roll(s)
      [] fn = "op_cat" -> op_cat(s)
      [] fn = "op_left" -> op_left(s)
      [] fn = "op_right" -> op_right(s)
      [] fn = "op_ifdup" -> op_ifdup(s)
      [] fn = "op_drop" -> op_drop(s)
      [] fn = "op_dup" -> op_dup(s)
      [] fn = "op_size" -> op_size(s)
      [] fn = "op_invert" -> op_invert(s)
      [] fn = "op_2div" -> op_2div(s)
      [] fn = "op_not" -> op_not(s)
      [] fn = "op_0notequal" -> op_0notequal(s)
      [] fn = "op_2drop" -> op_2drop(s)
      [] fn = "op_2dup" -> op_2dup(s)
      [] fn = "op_nip" -> op_nip(s)
      [] fn = "op_over" -> op_over(s)
      [] fn = "op_swap" -> op_swap(s)
      [] fn = "op_tuck" -> op_tuck(s)
      [] fn = "op_and" -> op_and(s)
      [] fn = "op_or" -> op_or(s)
      [] fn = "op_xor" -> op_xor(s)
      [] fn = "op_equal" -> op_equal(s)
      [] fn = "op_equalverify" -> op_equalverify(s)
      [] fn = "op_booland" -> op_booland(s)
      [] fn = "op_boolor" -> op_boolor(s)
      [] fn = "op_numequal" -> op_numequal(s)
      [] fn = "op_numequalverify" -> op_numequalverify(s)
      [] fn = "op_numnotequal" -> op_numnotequal(s)
      [] fn = "op_lessthan" -> op_lessthan(s)
      [] fn = "op_greaterthan" -> op_greaterthan(s)
      [] fn = "op_lessthanorequal" -> op_lessthanorequal(s)
      [] fn = "op_greaterthanorequal" -> op_greaterthanorequal(s)
      [] fn = "op_min" -> op_min(s)
      [] fn = "op_max" -> op_max(s)
      [] fn = "op_3dup" -> op_3dup(s)
      [] fn = "op_rot" -> op_rot(s)
      [] fn = "op_within" -> op_within(s)
      [] fn = "op_2over" -> op_2over(s)
      [] fn = "op_2swap" -> op_2swap(s)
      [] fn = "op_2rot" -> op_2rot(s)
      [] fn = "op_depth" -> op_depth(s)

Words == 0..WordMax

\* Stacks for the opcodes on numbers: none, one or two numbers above an
\* entry that stays, and entries of another variant.
NumStacks ==
    {<<>>, <<Bytes(<<>>)>>, <<Num(1), Bytes(<<>>)>>, <<Bytes(<<>>), Num(1)>>}
    \cup {<<Num(a)>> : a \in Words}
    \cup {<<Bytes(CheckData), Num(a), Num(b)>> : a \in Words, b \in Words}

\* Stacks for OP_PICK and OP_ROLL.
DepthStacks ==
    SeqsUpTo({Num(0), Num(1), Num(2), Num(WordMax), Bytes(CheckData)}, MaxDepth + 1)

\* Byte strings around the element-size limit; the two letters tell the
\* operands of a concatenation apart.
CatStrings ==
    {Str(c, n) : c \in {97, 98},
                 n \in {0, 1, MAX_SCRIPT_ELEMENT_SIZE - 1, MAX_SCRIPT_ELEMENT_SIZE}}
CatStacks ==
    {<<Bytes(x), Bytes(y)>> : x \in CatStrings, y \in CatStrings}
    \cup {<<Num(0), Bytes(x), Bytes(y)>> : x \in CatStrings, y \in {<<98>>}}
    \cup {<<>>, <<Bytes(<<97>>)>>, <<Bytes(<<97>>), Num(1)>>, <<Num(1), Bytes(<<97>>)>>}

\* Strings no longer than isize::MAX bytes: "", "h", "hi", "hij", and with
\* the two-byte character U+00E9, "e-acute" and "h e-acute".
SubstrStrings ==
    {s \in {<<>>, <<104>>, <<104, 105>>, <<104, 105, 106>>, <<195, 169>>,
            <<104, 195, 169>>} : Len(s) <= WordMax \div 2}
SubstrStacks ==
    {<<Bytes(s), Num(n1), Num(n2)>> : s \in SubstrStrings, n1 \in Words, n2 \in Words}
    \cup {<<Num(0)>> \o <<Bytes(s), Num(n1), Num(n2)>> :
             s \in {<<104, 105>>}, n1 \in Words, n2 \in Words}
    \cup {<<Bytes(<<104>>), Num(0)>>, <<Num(0), Num(0), Num(0)>>,
          <<Bytes(<<104>>), Bytes(<<>>), Num(0)>>,
          <<Bytes(<<104>>), Num(0), Bytes(<<>>)>>}

\* The stack, splice, bitwise, arithmetic and comparison opcodes by the
\* number of entries each requires of the main stack before it pops any.
OneEntryOps ==
    {"op_ifdup", "op_drop", "op_dup", "op_size", "op_invert", "op_1add",
     "op_1sub", "op_2mul", "op_2div", "op_not", "op_0notequal"}
TwoEntryOps ==
    {"op_2drop", "op_2dup", "op_nip", "op_over", "op_swap", "op_tuck",
     "op_cat", "op_left", "op_right", "op_and", "op_or", "op_xor",
     "op_equal", "op_equalverify", "op_add", "op_sub", "op_mul", "op_div",
     "op_mod", "op_lshift", "op_rshift", "op_booland", "op_boolor",
     "op_numequal", "op_numequalverify", "op_numnotequal", "op_lessthan",
     "op_greaterthan", "op_lessthanorequal", "op_greaterthanorequal",
     "op_min", "op_max"}
ThreeEntryOps ==
    {"op_3dup", "op_rot", "op_substr", "op_within"}
FourEntryOps ==
    {"op_2over", "op_2swap"}
SixEntryOps == {"op_2rot"}
FrameOps ==
    OneEntryOps \cup TwoEntryOps \cup ThreeEntryOps \cup FourEntryOps
        \cup SixEntryOps \cup {"op_depth", "op_pick", "op_roll"}

\* Stacks too short for some opcode or other, and stacks of three entries.
ShortStacks == SeqsUpTo({Num(0), Num(2), Bytes(CheckData)}, MaxShort)

\* Stacks for OP_LEFT and OP_RIGHT: a string and a number, alone and above
\* an entry that stays, and the failing stacks of test_left.
LeftStacks ==
    {<<Bytes(s), Num(n)>> : s \in SubstrStrings, n \in Words}
    \cup {<<Num(0), Bytes(s), Num(n)>> : s \in {<<104, 105>>}, n \in Words}
    \cup {<<Bytes(<<104>>), Bytes(<<>>)>>, <<Bytes(<<104>>)>>, <<Num(0), Num(0)>>}

InitOps ==
    /\ \/ \E fn \in ArithOps \cup ShiftOps, s \in NumStacks :
             call = Call(fn, [stack |-> s])
       \/ \E fn \in {"op_pick", "op_roll"}, s \in DepthStacks :
             call = Call(fn, [stack |-> s])
       \/ \E s \in CatStacks : call = Call("op_cat", [stack |-> s])
       \/ \E fn \in {"op_left", "op_right"}, s \in LeftStacks :
             call = Call(fn, [stack |-> s])
       \/ \E fn \in FrameOps \ {"op_substr"}, s \in ShortStacks :
             call = Call(fn, [stack |-> s])
       \/ \E s \in SubstrStacks, c \in BOOLEAN :
             call = Call("op_substr", [stack |-> s, overflow_checks |-> c])
    /\ ScriptIdle /\ P2pkhIdle /\ TxIdle /\ HashIdle

\* An opcode function applied to a stack.
CallOp ==
    /\ call.fn # "op_substr" /\ ~call.done
    /\ Return(OpFn(call.fn, call.args.stack))
    /\ UNCHANGED <<scriptVars, p2pkhVars, txVars, hashVars>>

CallSubstr ==
    /\ Calling("op_substr")
    /\ Return(op_substr(call.args.stack, call.args.overflow_checks))
    /\ UNCHANGED <<scriptVars, p2pkhVars, txVars, hashVars>>

NextOps == CallOp \/ CallSubstr

SpecOps == InitOps /\ [][NextOps]_vars

(* ------------------ claims about the opcode functions ----------------- *)

\* The call has returned and the k entries at the top of its stack were of
\* the given variant.
ReturnedOn(fns, k, variant) ==
    /\ call.fn \in fns /\ call.done
    /\ Len(call.args.stack) >= k
    /\ \A i \in 0..(k - 1) : Peek(call.args.stack, i).t = variant

\* The opcode returned false and did not abort.
ReturnedFalse == ~call.ret.ok /\ ~call.ret.panic

\* The opcode returned true and left x above the entries below its k
\* operands.
ReturnedWith(k, x) ==
    /\ call.ret.ok /\ ~call.ret.panic
    /\ call.ret.stack = Append(DropN(call.args.stack, k), x)

\* The exact result of an arithmetic opcode on the integers; for a division
\* by zero a number outside the range.
ExactResult(fn, s) ==
    LET a == IF fn \in {"op_1add", "op_1sub", "op_2mul"} THEN Peek(s, 0).v
             ELSE Peek(s, 1).v
        b == Peek(s, 0).v
    IN  CASE fn = "op_1add" -> a + 1
          [] fn = "op_1sub" -> a - 1
          [] fn = "op_2mul" -> 2 * a
          [] fn = "op_add" -> a + b
          [] fn = "op_sub" -> a - b
          [] fn = "op_mul" -> a * b
          [] fn = "op_div" -> IF b = 0 THEN 0 - 1 ELSE a \div b
          [] fn = "op_mod" -> IF b = 0 THEN 0 - 1 ELSE a % b

Arity(fn) == IF fn \in {"op_1add", "op_1sub", "op_2mul"} THEN 1 ELSE 2

\* C25: every arithmetic opcode returns false when the exact result would
\* fall outside the machine-word unsigned range or the divisor is zero, and
\* otherwise pushes the exact result in place of its operands; none wraps
\* around.
C25_CheckedArithmetic ==
    \A fn \in ArithOps :
        ReturnedOn({fn}, Arity(fn), "Num") =>
            LET exact == ExactResult(fn, call.args.stack) IN
            IF exact < 0 \/ exact > WordMax THEN ReturnedFalse
            ELSE ReturnedWith(Arity(fn), Num(exact))

\* A multiplication whose exact result is too large has returned false.
C25_Witness ==
    /\ ReturnedOn({"op_mul"}, 2, "Num")
    /\ Peek(call.args.stack, 0).v * Peek(call.args.stack, 1).v > WordMax
    /\ ReturnedFalse

\* C26: OP_LSHIFT and OP_RSHIFT return false for every shift amount on the
\* stack that is greater than or equal to the word width, including amounts
\* that do not fit in the 32-bit type.
C26_ShiftAmount ==
    (ReturnedOn(ShiftOps, 2, "Num") /\ Peek(call.args.stack, 0).v >= WordBits)
        => ReturnedFalse

\* C33: OP_LSHIFT returns false whenever the exact value n1 * 2^n2 does not
\* fit in the machine word, so a successful left shift never loses
\* high-order bits.
C33_LshiftExact ==
    (/\ ReturnedOn({"op_lshift"}, 2, "Num")
     /\ Peek(call.args.stack, 1).v * 2^(Peek(call.args.stack, 0).v) > WordMax)
        => ReturnedFalse

\* The part of a string from byte n1 on, n2 bytes long.
Substring(str, n1, n2) == SubSeq(str, n1 + 1, n1 + n2)

\* C27: OP_SUBSTR on [s, n1, n2] returns false when n1 >= len(s),
\* n2 > len(s) or n1 + n2 > len(s), for all machine-word values of n1 and
\* n2; otherwise it replaces the three entries by the n2 characters of s
\* starting at n1.
C27_Substr ==
    (/\ Returned("op_substr")
     /\ Len(call.args.stack) >= 3
     /\ Peek(call.args.stack, 0).t = "Num"
     /\ Peek(call.args.stack, 1).t = "Num"
     /\ Peek(call.args.stack, 2).t = "Bytes") =>
        LET n2 == Peek(call.args.stack, 0).v
            n1 == Peek(call.args.stack, 1).v
            str == Peek(call.args.stack, 2).v
        IN  IF n1 >= Len(str) \/ n2 > Len(str) \/ n1 + n2 > Len(str)
            THEN ReturnedFalse
            ELSE ReturnedWith(3, Bytes(Substring(str, n1, n2)))

\* C35: for every byte string s and number n, OP_LEFT gives the first
\* min(n, len(s)) characters of s and OP_RIGHT gives s without them, so the
\* OP_LEFT result followed by the OP_RIGHT result for the same (s, n) is s;
\* neither opcode fails for any n on a string below a number.
C35_LeftRight ==
    (/\ call.fn \in {"op_left", "op_right"} /\ call.done
     /\ Len(call.args.stack) >= 2
     /\ Peek(call.args.stack, 0).t = "Num"
     /\ Peek(call.args.stack, 1).t = "Bytes") =>
        LET n == Peek(call.args.stack, 0).v
            str == Peek(call.args.stack, 1).v
            k == IF n < Len(str) THEN n ELSE Len(str)
            l == op_left(call.args.stack)
            r == op_right(call.args.stack)
        IN  /\ call.fn = "op_left" => ReturnedWith(2, Bytes(SubSeq(str, 1, k)))
            /\ call.fn = "op_right" =>
                  ReturnedWith(2, Bytes(SubSeq(str, k + 1, Len(str))))
            /\ l.ok /\ r.ok
            /\ Top(l.stack).v \o Top(r.stack).v = str

\* The number of entries an opcode needs on the main stack: fixed for all
\* but OP_PICK and OP_ROLL, which need the number n and n + 1 entries below
\* it.
EntriesNeeded(fn, s) ==
    CASE fn \in OneEntryOps -> 1
      [] fn \in TwoEntryOps -> 2
      [] fn \in ThreeEntryOps -> 3
      [] fn \in FourEntryOps -> 4
      [] fn \in SixEntryOps -> 6
      [] fn \in {"op_pick", "op_roll"} ->
            IF Len(s) > 1 /\ Top(s).t = "Num" THEN Top(s).v + 2 ELSE 2
      [] OTHER -> 0

\* C39: every stack, splice, bitwise, arithmetic and comparison opcode that
\* returns false because the main stack holds fewer entries than it needs
\* leaves the main stack exactly as it was.
C39_ShortStackUnchanged ==
    (/\ call # <<>> /\ call.fn \in FrameOps /\ call.done
     /\ ReturnedFalse
     /\ Len(call.args.stack) < EntriesNeeded(call.fn, call.args.stack)) =>
        call.ret.stack = call.args.stack

\* What PICK and ROLL leave of the stack below the popped number.
Picked(rest, n) == Append(rest, rest[Len(rest) - n])
Rolled(rest, n) ==
    [i \in 1..Len(rest) |->
        IF i < Len(rest) - n THEN rest[i]
        ELSE IF i < Len(rest) THEN rest[i + 1]
        ELSE rest[Len(rest) - n]]

\* C28: OP_PICK and OP_ROLL pop a number n, return false if n is greater
\* than or equal to the remaining depth or the popped entry is not a number,
\* and otherwise copy (PICK) or move (ROLL) the entry n places below the
\* top to the top; with n = 0 PICK duplicates the top and ROLL leaves the
\* remaining stack as it is.
C28_PickRoll ==
    (call.fn \in {"op_pick", "op_roll"} /\ call.done /\ Len(call.args.stack) > 0)
        => LET top == Top(call.args.stack)
               rest == Pop(call.args.stack)
           IN  IF top.t # "Num" THEN ReturnedFalse
               ELSE IF top.v >= Len(rest) THEN ReturnedFalse
               ELSE /\ call.ret.ok /\ ~call.ret.panic
                    /\ call.fn = "op_pick" =>
                          call.ret.stack = Picked(rest, top.v)
                    /\ call.fn = "op_roll" =>
                          call.ret.stack = Rolled(rest, top.v)
                    /\ (top.v = 0 /\ call.fn = "op_pick") =>
                          call.ret.stack = Append(rest, Top(rest))
                    /\ (top.v = 0 /\ call.fn = "op_roll") =>
                          call.ret.stack = rest

\* OP_ROLL has moved the entry three places below the top.
C28_Witness ==
    /\ Returned("op_roll")
    /\ call.args.stack = <<Num(1), Num(2), Num(0), Bytes(CheckData), Num(2)>>
    /\ call.ret.ok
    /\ call.ret.stack = <<Num(1), Num(0), Bytes(CheckData), Num(2)>>

\* C29: OP_CAT replaces the top two byte strings by their concatenation,
\* second-to-top first, when their combined length is at most the
\* element-size limit, and returns false when the combined length exceeds
\* it or either entry is not Bytes; a combined length equal to the limit is
\* accepted.
C29_Cat ==
    (Returned("op_cat") /\ Len(call.args.stack) >= 2) =>
        LET s2 == Peek(call.args.stack, 0)
            s1 == Peek(call.args.stack, 1)
        IN  IF s1.t # "Bytes" \/ s2.t # "Bytes" THEN ReturnedFalse
            ELSE IF Len(s1.v) + Len(s2.v) > 520 THEN ReturnedFalse
            ELSE ReturnedWith(2, Bytes(s1.v \o s2.v))

\* A concatenation of exactly the limit.
C29_Witness ==
    /\ Returned("op_cat")
    /\ call.args.stack = <<Bytes(Str(97, 519)), Bytes(Str(98, 1))>>
    /\ call.ret.ok
    /\ Len(Top(call.ret.stack).v) = 520


(* --------------- metadata updates: models/transaction.rs -------------- *)

\* models::Transaction { id, genesis_hash, asset_type, metadata };
\* AssetType has the one variant Item.
ModelsTransaction(id, genesis_hash, asset_type, metadata) ==
    [id |-> id, genesis_hash |-> genesis_hash, asset_type |-> asset_type,
     metadata |-> metadata]

\* An update_metadata that leaves the genesis hash alone.
update_metadata_keep(t, new_metadata) ==
    [t EXCEPT !.metadata = Some(new_metadata)]

\* Transaction::update_metadata.
update_metadata(t, new_metadata) ==
    LET u == IF t.asset_type = "Item" THEN [t EXCEPT !.genesis_hash = t.id]
             ELSE t
    IN  [u EXCEPT !.metadata = Some(new_metadata)]

\* Transaction::compute_hash: the hex SHA-256 digest of the serialized
\* transaction, one digest per transaction.
compute_hash(t) == "sha256:" \o ToString(t)

\* Transaction::create_metadata_update.
create_metadata_update(original_tx, new_metadata) ==
    LET updated_tx == update_metadata(original_tx, new_metadata) IN
    [updated_tx EXCEPT !.id = compute_hash(updated_tx)]

\* Transaction::validate: "Ok" or the error.
validate(t, input_transaction) ==
    IF t.asset_type = "Item"
    THEN IF input_transaction.some
         THEN IF t.genesis_hash # input_transaction.v.id
              THEN "InvalidGenesisHash" ELSE "Ok"
         ELSE IF t.genesis_hash # t.id THEN "InvalidGenesisHash" ELSE "Ok"
    ELSE "Ok"

(* ------- TransactionValidator: validation/transaction_validator.rs ---- *)

\* The Transaction of the validator: { id, asset_type, metadata, signature },
\* with metadata an Option<Metadata> and Metadata { genesis_hash }; the
\* asset types of its tests are Item and Currency.
ValidatorTransaction(id, asset_type, metadata, signature) ==
    [id |-> id, asset_type |-> asset_type, metadata |-> metadata,
     signature |-> signature]
Metadata(genesis_hash) == [genesis_hash |-> genesis_hash]

\* utils::hash::calculate_hash: one digest per input.
calculate_hash(x) == "hash:" \o x

\* TransactionValidator::validate_basic.
validate_basic(transaction) ==
    IF transaction.signature = "" THEN "InvalidSignature" ELSE "Ok"

\* TransactionValidator::validate_item_genesis_hash.
validate_item_genesis_hash(transaction) ==
    IF transaction.metadata.some
    THEN IF transaction.metadata.v.genesis_hash # calculate_hash(transaction.id)
         THEN "InvalidGenesisHash" ELSE "Ok"
    ELSE "MissingMetadata"

\* TransactionValidator::validate: "Ok" or the error.
TransactionValidator_validate(transaction) ==
    IF validate_basic(transaction) # "Ok" THEN validate_basic(transaction)
    ELSE IF transaction.asset_type = "Item"
    THEN validate_item_genesis_hash(transaction)
    ELSE "Ok"

\* An update_metadata that stores the id itself as the genesis hash.
TransactionValidator_update_metadata_id(transaction) ==
    IF transaction.asset_type = "Item"
    THEN IF transaction.metadata.some
         THEN [tx |-> [transaction EXCEPT !.metadata.v.genesis_hash =
                                               transaction.id],
               ret |-> "Ok"]
         ELSE [tx |-> transaction, ret |-> "MissingMetadata"]
    ELSE [tx |-> transaction, ret |-> "Ok"]

\* TransactionValidator::update_metadata: the transaction as it leaves it
\* and "Ok" or the error.
TransactionValidator_update_metadata(transaction) ==
    IF transaction.asset_type = "Item"
    THEN IF transaction.metadata.some
         THEN [tx |-> [transaction EXCEPT !.metadata.v.genesis_hash =
                                               calculate_hash(transaction.id)],
               ret |-> "Ok"]
         ELSE [tx |-> transaction, ret |-> "MissingMetadata"]
    ELSE [tx |-> transaction, ret |-> "Ok"]

\* The transactions of the validator's tests, with and without metadata and
\* signature.
ValidatorTxs ==
    {ValidatorTransaction(i, a, m, g) :
        i \in {"tx123", "tx456"}, a \in {"Item", "Currency"},
        m \in {None} \cup {Some(Metadata(h)) :
                  h \in {"old_hash", "invalid_hash", calculate_hash("tx123"),
                         calculate_hash("tx456")}},
        g \in {"", "valid_signature"}}

\* The transactions and metadata of the tests.
ModelIds == {"original_tx_hash", "genesis_tx_hash"}
ModelGenesis == {"original_genesis_hash", "genesis_tx_hash", "invalid_genesis_hash"}
ModelMetadata == {"Original metadata", "Updated metadata"}
ModelTxs ==
    {ModelsTransaction(i, g, "Item", m) :
        i \in ModelIds, g \in ModelGenesis,
        m \in {None} \cup {Some(x) : x \in ModelMetadata}}

\* The genesis transactions: those that validate without an input
\* transaction.
GenesisTxs == {t \in ModelTxs : validate(t, None) = "Ok"}

\* Either a metadata update of a transaction, to be validated with or
\* without that transaction as its input, or the validation of a
\* transaction as it is, or a sequence of metadata updates that starts
\* from a genesis transaction.
InitMetadata ==
    /\ \/ \E o \in ModelTxs, m \in ModelMetadata, i \in BOOLEAN :
             call = Call("create_metadata_update",
                         [orig |-> Some(o), metadata |-> m, with_input |-> i,
                          changed |-> FALSE])
       \/ \E t \in ModelTxs, i \in {None} \cup {Some(o) : o \in ModelTxs} :
             call = Call("validate",
                         [orig |-> None, tx |-> t, input |-> i, changed |-> FALSE])
       \/ \E g \in GenesisTxs :
             call = Call("update_chain", [genesis |-> g, tx |-> g, updates |-> 0])
       \/ \E t \in ValidatorTxs :
             call = Call("TransactionValidator",
                         [orig |-> t, tx |-> t, rets |-> <<>>, txs |-> <<>>])
    /\ ScriptIdle /\ P2pkhIdle /\ TxIdle /\ HashIdle

CallCreateMetadataUpdate ==
    /\ Calling("create_metadata_update")
    /\ call' = Call("validate",
                    [orig |-> call.args.orig,
                     metadata |-> call.args.metadata,
                     tx |-> create_metadata_update(call.args.orig.v,
                                                   call.args.metadata),
                     input |-> IF call.args.with_input THEN call.args.orig
                               ELSE None,
                     changed |-> FALSE])
    /\ UNCHANGED <<scriptVars, p2pkhVars, txVars, hashVars>>

\* The caller overwrites genesis_hash of the updated transaction, with one
\* of the test values, an id, or the transaction's own id.
SetGenesisHash ==
    /\ Calling("validate") /\ call.args.orig.some /\ ~call.args.changed
    /\ \E g \in ModelGenesis \cup ModelIds \cup {call.args.tx.id} :
          /\ g # call.args.tx.genesis_hash
          /\ call' = [call EXCEPT !.args.tx.genesis_hash = g,
                                  !.args.changed = TRUE]
    /\ UNCHANGED <<scriptVars, p2pkhVars, txVars, hashVars>>

CallValidate ==
    /\ Calling("validate")
    /\ Return(validate(call.args.tx, call.args.input))
    /\ UNCHANGED <<scriptVars, p2pkhVars, txVars, hashVars>>

\* One more create_metadata_update, applied to the result of the last.
ChainMetadataUpdate ==
    /\ Calling("update_chain") /\ call.args.updates < MaxUpdates
    /\ \E m \in ModelMetadata :
          call' = [call EXCEPT
                      !.args.tx = create_metadata_update(call.args.tx, m),
                      !.args.updates = @ + 1]
    /\ UNCHANGED <<scriptVars, p2pkhVars, txVars, hashVars>>

\* TransactionValidator::update_metadata on the transaction, a first and a
\* second time.
ValidatorUpdateMetadata ==
    /\ Calling("TransactionValidator") /\ Len(call.args.rets) < 2
    /\ LET r == TransactionValidator_update_metadata(call.args.tx) IN
       call' = [call EXCEPT !.args.tx = r.tx,
                            !.args.rets = Append(@, r.ret),
                            !.args.txs = Append(@, r.tx)]
    /\ UNCHANGED <<scriptVars, p2pkhVars, txVars, hashVars>>

\* TransactionValidator::validate on the transaction as it is.
ValidatorValidate ==
    /\ Calling("TransactionValidator")
    /\ Return(TransactionValidator_validate(call.args.tx))
    /\ UNCHANGED <<scriptVars, p2pkhVars, txVars, hashVars>>

NextMetadata ==
    CallCreateMetadataUpdate \/ SetGenesisHash \/ CallValidate
        \/ ChainMetadataUpdate \/ ValidatorUpdateMetadata \/ ValidatorValidate

SpecMetadata == InitMetadata /\ [][NextMetadata]_vars

\* C30: for every Item transaction orig and metadata m,
\* create_metadata_update(orig, m) has metadata Some(m) and genesis_hash
\* orig.id and validates with orig as its input transaction; with its
\* genesis_hash changed to any other value validate returns
\* InvalidGenesisHash; with no input transaction validate succeeds exactly
\* when genesis_hash equals the transaction's own id.
C30_MetadataUpdate ==
    /\ (call.fn = "validate" /\ call.args.orig # None /\ ~call.args.changed) =>
          /\ call.args.tx.metadata = Some(call.args.metadata)
          /\ call.args.tx.genesis_hash = call.args.orig.v.id
    /\ (Returned("validate") /\ call.args.orig # None /\ call.args.input # None) =>
          /\ ~call.args.changed => call.ret = "Ok"
          /\ call.args.changed => call.ret = "InvalidGenesisHash"
    /\ (Returned("validate") /\ call.args.input = None) =>
          /\ call.ret = "Ok" <=> call.args.tx.genesis_hash = call.args.tx.id
          /\ call.ret # "Ok" => call.ret = "InvalidGenesisHash"

\* The update of test_validation_success has validated with its original.
C30_Witness ==
    /\ Returned("validate")
    /\ call.args.orig =
          Some(ModelsTransaction("original_tx_hash", "original_genesis_hash",
                                 "Item", Some("Original metadata")))
    /\ call.args.input = call.args.orig
    /\ call.args.tx.metadata = Some("Updated metadata")
    /\ call.args.tx.genesis_hash = "original_tx_hash"
    /\ call.ret = "Ok"


\* C31: after any sequence of metadata updates that starts from a genesis
\* Item transaction, the genesis_hash of the resulting transaction is the
\* genesis hash of the genesis transaction.
C31_GenesisHashPersists ==
    (call.fn = "update_chain" /\ call.args.genesis.asset_type = "Item") =>
        call.args.tx.genesis_hash = call.args.genesis.genesis_hash


\* C40: TransactionValidator::update_metadata on an Item transaction that
\* has metadata sets metadata.genesis_hash to calculate_hash(id) and changes
\* nothing else, a second application changes nothing, and validate then
\* succeeds whenever the signature is not empty; on an Item without
\* metadata it returns MissingMetadata; on a transaction that is no Item it
\* returns Ok and leaves the transaction unchanged.
C40_ValidatorUpdate ==
    (call.fn = "TransactionValidator" /\ Len(call.args.rets) >= 1) =>
        LET o == call.args.orig
            t == call.args.tx
        IN  /\ (o.asset_type = "Item" /\ o.metadata.some) =>
                  /\ call.args.rets[1] = "Ok"
                  /\ call.args.txs[1] =
                        [o EXCEPT !.metadata =
                                     Some(Metadata(calculate_hash(o.id)))]
                  /\ Len(call.args.rets) = 2 =>
                        /\ call.args.rets[2] = "Ok"
                        /\ call.args.txs[2] = call.args.txs[1]
                  /\ (call.done /\ o.signature # "") => call.ret = "Ok"
            /\ (o.asset_type = "Item" /\ ~o.metadata.some) =>
                  call.args.rets[1] = "MissingMetadata"
            /\ o.asset_type # "Item" =>
                  call.args.rets[1] = "Ok" /\ t = o

\* The transaction of test_update_metadata has been updated twice and has
\* validated.
C40_Witness ==
    /\ Returned("TransactionValidator")
    /\ call.args.orig =
          ValidatorTransaction("tx123", "Item", Some(Metadata("old_hash")),
                               "valid_signature")
    /\ Len(call.args.rets) = 2
    /\ call.args.tx.metadata.v.genesis_hash = calculate_hash("tx123")
    /\ call.ret = "Ok"

====
